---- MODULE Spec2Model ----
(***************************************************************************)
(* State-machine model of the English Booster affiliate system: the five   *)
(* tables of server/src/db/schema.ts, the handlers that read and write     *)
(* them, and the two client flows that chain handlers.                     *)
(*                                                                         *)
(* Steps.  The handlers open no transaction: every awaited statement is a  *)
(* step of its own and the statements of concurrent requests interleave.   *)
(* A handler that awaits one statement is one action; a handler that       *)
(* awaits several is a Begin action and one action per statement, run by   *)
(* one of the request slots Procs.                                         *)
(*                                                                         *)
(* Units.  A numeric(12,2) column is kept in hundredths, the numeric(5,4)  *)
(* rate in ten-thousandths.  What JavaScript computes with these values is *)
(* computed in double precision.  A table is the set of its rows; ids come *)
(* from the table's sequence, which an INSERT advances whether or not the  *)
(* row is stored.  A null column is Null, an input field that is undefined *)
(* is Absent.                                                              *)
(***************************************************************************)
EXTENDS Integers, Sequences, FiniteSets, TLC

VARIABLES users, affiliates, programs, registrations, payouts, serial, clock, calls, last

vars == <<users, affiliates, programs, registrations, payouts, serial, clock, calls, last>>
tables == <<users, affiliates, programs, registrations, payouts, serial, clock>>

----------------------------------------------------------------------------
(* Bounds of the model: the ids a table's sequence hands out, and the      *)
(* requests in progress at a time                                          *)

MaxUsers == 3
MaxAffiliates == 3
MaxPrograms == 1
MaxRegistrations == 2
MaxPayouts == 2
NumProcs == 2

(* Program constants *)

(* a null column; an input field that is undefined.  Both stand outside   *)
(* the numbers a request of the model carries (zod's z.number() admits 0  *)
(* and negative numbers, which are inputs of their own): they are the two *)
(* lowest integers of the model                                           *)
Null == 0 - 2147483646
Absent == 0 - 2147483647
Cents == 100
RateScale == 10000
MinAvailable == 100000
maxAttempts == 10
RateLimit == 10
MinPayoutAmount == 100000
DefaultLimit == 50
MaxLimit == 100
DefaultCommissionRate == 1000

affiliateStatusEnum == {"pending", "approved", "rejected", "suspended"}
registrationStatusEnum == {"pending", "confirmed", "cancelled"}
payoutStatusEnum == {"pending", "processing", "completed", "failed"}
userRoleEnum == {"admin", "affiliate"}

(* Input domains *)

Emails == {"admin@eb.id", "aff@eb.id", "new@eb.id"}
Codes ==
    { <<"EBAAAA", "EBBBBB", "EBCCCC", "EBDDDD", "EBEEEE">>[i] : i \in 1..(MaxAffiliates + 1) }
Rates == {1000, 555, 15000}
Prices == {100000000, 300000300, 35}
Amounts == {9999999, 10000000, 10000010, 10000020, 20000020}
NoNotes == "<null>"
AbsentNotes == "<undefined>"
NoStatus == "<undefined>"
NoteTexts == {"transfer done"}
Procs == 1..NumProcs

----------------------------------------------------------------------------
(* Numbers *)

(* Natural numbers of any size: the digits in base Base, lowest first, no  *)
(* leading zero digit                                                      *)
Base == 32768
DigitBits == 15

RECURSIVE Pow2(_)
Pow2(k) == IF k = 0 THEN 1 ELSE 2 * Pow2(k - 1)

RECURSIVE BTrim(_)
BTrim(a) == IF a # <<>> /\ a[Len(a)] = 0 THEN BTrim(SubSeq(a, 1, Len(a) - 1)) ELSE a

RECURSIVE BFromInt(_)
BFromInt(n) == IF n = 0 THEN <<>> ELSE <<n % Base>> \o BFromInt(n \div Base)

RECURSIVE BToInt(_)
BToInt(a) == IF a = <<>> THEN 0 ELSE a[1] + Base * BToInt(Tail(a))

Digit(a, i) == IF i <= Len(a) THEN a[i] ELSE 0

RECURSIVE BAddC(_, _, _)
BAddC(a, b, carry) ==
    IF a = <<>> /\ b = <<>> THEN (IF carry = 0 THEN <<>> ELSE <<carry>>)
    ELSE LET s == Digit(a, 1) + Digit(b, 1) + carry
         IN  <<s % Base>> \o BAddC(IF a = <<>> THEN a ELSE Tail(a),
                                   IF b = <<>> THEN b ELSE Tail(b), s \div Base)
BAdd(a, b) == BAddC(a, b, 0)

(* a - b for a >= b *)
RECURSIVE BSubC(_, _, _)
BSubC(a, b, borrow) ==
    IF a = <<>> THEN <<>>
    ELSE LET s == a[1] - Digit(b, 1) - borrow
         IN  <<IF s < 0 THEN s + Base ELSE s>>
             \o BSubC(Tail(a), IF b = <<>> THEN b ELSE Tail(b), IF s < 0 THEN 1 ELSE 0)
BSub(a, b) == BTrim(BSubC(a, b, 0))

(* -1, 0 or 1 as a is below, equal to or above b *)
RECURSIVE BCmp(_, _)
BCmp(a, b) ==
    IF Len(a) # Len(b) THEN (IF Len(a) < Len(b) THEN 0 - 1 ELSE 1)
    ELSE IF a = <<>> THEN 0
    ELSE IF a[Len(a)] # b[Len(b)] THEN (IF a[Len(a)] < b[Len(b)] THEN 0 - 1 ELSE 1)
    ELSE BCmp(SubSeq(a, 1, Len(a) - 1), SubSeq(b, 1, Len(b) - 1))

(* a * k for a digit k *)
RECURSIVE BMulC(_, _, _)
BMulC(a, k, carry) ==
    IF a = <<>> THEN (IF carry = 0 THEN <<>> ELSE <<carry>>)
    ELSE LET s == a[1] * k + carry
         IN  <<s % Base>> \o BMulC(Tail(a), k, s \div Base)
BMulSmall(a, k) == IF k = 0 THEN <<>> ELSE BMulC(a, k, 0)

RECURSIVE BMul(_, _)
BMul(a, b) ==
    IF a = <<>> \/ b = <<>> THEN <<>>
    ELSE BAdd(BMulSmall(a, b[1]),
              LET rest == BMul(a, Tail(b)) IN IF rest = <<>> THEN <<>> ELSE <<0>> \o rest)

(* quotient and remainder of a by d, 0 < d < 2 * Base *)
RECURSIVE BDivC(_, _)
BDivC(a, d) ==
    IF a = <<>> THEN [q |-> <<>>, r |-> 0]
    ELSE LET high == BDivC(Tail(a), d)
             x == high.r * Base + a[1]
         IN  [q |-> <<x \div d>> \o high.q, r |-> x % d]
BDivSmall(a, d) == LET x == BDivC(a, d) IN [q |-> BTrim(x.q), r |-> x.r]

Zeros(n) == [i \in 1..n |-> 0]

(* a * 2^k and the integer part of a / 2^k *)
BShl(a, k) ==
    IF a = <<>> THEN <<>>
    ELSE Zeros(k \div DigitBits) \o BMulSmall(a, Pow2(k % DigitBits))
BShr(a, k) ==
    IF k \div DigitBits >= Len(a) THEN <<>>
    ELSE BDivSmall(SubSeq(a, k \div DigitBits + 1, Len(a)), Pow2(k % DigitBits)).q

RECURSIVE Bits(_)
Bits(n) == IF n = 0 THEN 0 ELSE 1 + Bits(n \div 2)
BitLen(a) == IF a = <<>> THEN 0 ELSE DigitBits * (Len(a) - 1) + Bits(a[Len(a)])
BOdd(a) == a # <<>> /\ a[1] % 2 = 1

(* IEEE 754 double precision numbers away from the ends of the exponent   *)
(* range: the value is m * 2^e, negated when neg, with m an odd natural   *)
(* of at most 53 bits, or zero                                             *)
Precision == 53
FZero == [neg |-> FALSE, m |-> <<>>, e |-> 0]

RECURSIVE Canon(_, _, _)
Canon(neg, m, e) ==
    IF m = <<>> THEN FZero
    ELSE IF m[1] = 0 THEN Canon(neg, Tail(m), e + DigitBits)
    ELSE IF m[1] % 2 = 0 THEN Canon(neg, BShr(m, 1), e + 1)
    ELSE [neg |-> neg, m |-> m, e |-> e]

(* the double nearest to m * 2^e, ties to the even neighbour *)
Round(neg, m, e) ==
    IF BitLen(m) <= Precision THEN Canon(neg, m, e)
    ELSE LET s == BitLen(m) - Precision
             q == BShr(m, s)
             r == BSub(m, BShl(q, s))
             c == BCmp(r, BShl(<<1>>, s - 1))
             up == c > 0 \/ (c = 0 /\ BOdd(q))
         IN  Canon(neg, IF up THEN BAdd(q, <<1>>) ELSE q, e + s)

(* the exact sum of two doubles as sign, magnitude and exponent *)
ExactSum(a, b) ==
    LET e == IF a.e < b.e THEN a.e ELSE b.e
        ma == BShl(a.m, a.e - e)
        mb == BShl(b.m, b.e - e)
    IN  IF a.neg = b.neg THEN [neg |-> a.neg, m |-> BAdd(ma, mb), e |-> e]
        ELSE IF BCmp(ma, mb) >= 0 THEN [neg |-> a.neg, m |-> BSub(ma, mb), e |-> e]
        ELSE [neg |-> b.neg, m |-> BSub(mb, ma), e |-> e]

FNeg(a) == IF a.m = <<>> THEN a ELSE [a EXCEPT !.neg = ~a.neg]
FAdd(a, b) == LET x == ExactSum(a, b) IN Round(x.neg, x.m, x.e)
FSub(a, b) == FAdd(a, FNeg(b))
FMul(a, b) == Round(a.neg # b.neg, BMul(a.m, b.m), a.e + b.e)
FGt(a, b) == LET x == ExactSum(a, FNeg(b)) IN x.m # <<>> /\ ~x.neg
FGe(a, b) == LET x == ExactSum(a, FNeg(b)) IN x.m = <<>> \/ ~x.neg

(* parseFloat of the decimal n / scale, n a natural: a sticky bit below    *)
(* the quotient stands for a remainder that is not zero                    *)
GuardBits == 75
ParseB(n, scale) ==
    LET x == BDivSmall(BShl(n, GuardBits), scale)
    IN  Round(FALSE, BAdd(BShl(x.q, 1), IF x.r = 0 THEN <<>> ELSE <<1>>), 0 - GuardBits - 1)
parseFloat(n, scale) == ParseB(BFromInt(n), scale)

(* what a numeric column of the given scale stores for x.toString(), x a   *)
(* double that is not negative, in units of 1 / scale.  toString gives the *)
(* shortest decimal that parses back to x: when the decimal half way       *)
(* between two neighbours of the column parses to x, toString is that      *)
(* decimal and the column rounds it away from zero; otherwise the decimal  *)
(* lies on the side of the half-way point on which x lies                  *)
toNumeric(x, scale) ==
    LET m == BMulSmall(x.m, scale)
        lo == IF x.e >= 0 THEN BShl(m, x.e) ELSE BShr(m, 0 - x.e)
        r == IF x.e >= 0 THEN <<>> ELSE BSub(m, BShl(lo, 0 - x.e))
        half == IF x.e >= 0 THEN <<1>> ELSE BShl(<<1>>, 0 - x.e - 1)
        boundary == ParseB(BAdd(BMulSmall(lo, 2), <<1>>), 2 * scale)
    IN  IF boundary = x \/ BCmp(r, half) >= 0 THEN BToInt(lo) + 1 ELSE BToInt(lo)

----------------------------------------------------------------------------
(* Outcomes of a call: "ok" or the message of the error thrown; a message  *)
(* the code builds from a template is kept as its template                *)

Ok == "ok"
ErrUserNotFound == "User not found"
ErrHasProfile == "User already has an affiliate profile"
ErrNoUniqueCode == "Unable to generate unique referral code"
ErrAffiliateIdNotFound == "Affiliate with id ${input.affiliate_id} not found"
ErrInvalidAffiliate == "Invalid affiliate ID or referral code"
ErrNotApprovedReg == "Affiliate is not approved for registrations"
ErrProgramNotFound == "Program not found"
ErrProgramInactive == "Program is not active"
ErrRegistrationNotFound == "Student registration with ID ${input.registration_id} not found"
ErrPayoutAffiliateNotFound == "Affiliate with ID ${input.affiliate_id} not found"
ErrNotApprovedPayout == "Only approved affiliates can request payouts"
ErrInsufficient == "Insufficient commission balance. Available: ${availableBalance}, Requested: ${input.amount}"
ErrPayoutNotFound == "Commission payout with ID ${input.payout_id} not found"
ErrConstraint == "database constraint violation"
ErrBadRequest == "BAD_REQUEST"
ErrZod == "ZodError"
ErrRegistration == "Registration failed. Please check your information and try again."
ErrNoRow == "TypeError: Cannot read properties of undefined"
ErrProfileNotFound == "Affiliate profile not found. Please contact support."

----------------------------------------------------------------------------
(* Helpers over tables *)

Ids(table) == {row.id : row \in table}
Has(table, id) == \E row \in table : row.id = id
Row(table, id) == CHOOSE row \in table : row.id = id
Set(table, id, row) == {IF r.id = id THEN row ELSE r : r \in table}

(* the id the next INSERT into table t draws from the table's sequence,   *)
(* and the sequence after the draw                                        *)
NextId(t) == serial[t] + 1
Drawn(t) == [serial EXCEPT ![t] = @ + 1]
NoneDrawn == [users |-> 0, affiliates |-> 0, programs |-> 0, registrations |-> 0,
              payouts |-> 0]

(* SQL sum() over a numeric column: exact *)
RECURSIVE Sum(_, _)
Sum(rows, column) ==
    IF rows = {} THEN 0
    ELSE LET row == CHOOSE row \in rows : TRUE
         IN  row[column] + Sum(rows \ {row}, column)

(* rows.reduce((sum, row) => sum + parseFloat(row.column), sum): the rows  *)
(* of a select without ORDER BY come in any order, and a sum of doubles    *)
(* may depend on the order                                                 *)
RECURSIVE reduce(_, _, _)
reduce(rows, column, sum) ==
    IF rows = {} THEN {sum}
    ELSE UNION {reduce(rows \ {row}, column, FAdd(sum, parseFloat(row[column], Cents)))
                : row \in rows}

(* a decimal column read into a number and written back through           *)
(* toString()                                                             *)
Amount(n) == toNumeric(parseFloat(n, Cents), Cents)
Rate(n) == toNumeric(parseFloat(n, RateScale), RateScale)

(* new Date() in an update: approved_at, confirmed_at and processed_at are  *)
(* never read by a handler, so the model keeps only that they are set      *)
Now == 1

(* Integrity constraints of the schema *)

(* a database without foreign keys to users: any id passes *)
UserExistsUnchecked(uid) == uid \in Int
UserExists(uid) == Has(users, uid)
RefOk(uid) == uid = Null \/ UserExists(uid)
UserIdNotUnique(uid) == TRUE
ReferralCodeNotUnique(code) == TRUE
UserIdUnique(uid) == \A a \in affiliates : a.user_id # uid
ReferralCodeUnique(code) == \A a \in affiliates : a.referral_code # code
EmailUnique(email) == \A u \in users : u.email # email
RateFits(rate) == rate < RateLimit * RateScale

----------------------------------------------------------------------------
(* Requests.  calls[p] is the request slot p runs, with its position pc    *)
(* and its local variables; last is the response of the request that ended *)
(* last: its operation, input, outcome and the id of the row it inserted   *)
(* or updated (Null if none).                                              *)

Idle == [pc |-> "idle"]
NoCalls == [p \in Procs |-> Idle]
NoCall == [op |-> "none", outcome |-> "none", row |-> Null]

(* slots are interchangeable: a request takes the lowest free one *)
Free(p) == calls[p] = Idle /\ \A q \in Procs : q < p => calls[q] # Idle
At(p, pc) == calls[p].pc = pc

Done(op, input, row) == [op |-> op, input |-> input, outcome |-> Ok, row |-> row]
Fail(op, input, msg) == [op |-> op, input |-> input, outcome |-> msg, row |-> Null]

Goto(p, call) == calls' = [calls EXCEPT ![p] = call] /\ UNCHANGED last
Return(p, response) == calls' = [calls EXCEPT ![p] = Idle] /\ last' = response

----------------------------------------------------------------------------
(* Rows *)

UserRow(id, input, at) ==
    [id |-> id, email |-> input.email, password_hash |-> input.password_hash,
     full_name |-> input.full_name, phone |-> input.phone, role |-> input.role,
     created_at |-> at]

(* an affiliate that is approved from the start *)
AffiliateRowApproved(id, input, code, at) ==
    [id |-> id, user_id |-> input.user_id, referral_code |-> code,
     commission_rate |-> Rate(input.commission_rate), status |-> "approved",
     approved_by |-> Null, approved_at |-> Null, created_at |-> at]

AffiliateRow(id, input, code, at) ==
    [id |-> id, user_id |-> input.user_id, referral_code |-> code,
     commission_rate |-> Rate(input.commission_rate), status |-> "pending",
     approved_by |-> Null, approved_at |-> Null, created_at |-> at]

ProgramRow(id, input, at) ==
    [id |-> id, price |-> Amount(input.price), is_active |-> input.is_active,
     created_at |-> at]

(* a registration stored under one fixed code instead of the input's *)
RegistrationRowFixedCode(id, input, fee, commission, at) ==
    [id |-> id, affiliate_id |-> input.affiliate_id, program_id |-> input.program_id,
     student_name |-> input.student_name,
     referral_code |-> "EBCCCC", status |-> "pending",
     registration_fee |-> fee, commission_amount |-> commission,
     confirmed_by |-> Null, confirmed_at |-> Null, created_at |-> at]

RegistrationRow(id, input, fee, commission, at) ==
    [id |-> id, affiliate_id |-> input.affiliate_id, program_id |-> input.program_id,
     student_name |-> input.student_name,
     referral_code |-> input.referral_code, status |-> "pending",
     registration_fee |-> fee, commission_amount |-> commission,
     confirmed_by |-> Null, confirmed_at |-> Null, created_at |-> at]

(* a payout that is created already in processing *)
PayoutRowProcessed(id, input, at) ==
    [id |-> id, affiliate_id |-> input.affiliate_id, amount |-> Amount(input.amount),
     method |-> input.method, bank_details |-> input.bank_details,
     ewallet_details |-> input.ewallet_details,
     status |-> "processing", processed_by |-> Null, processed_at |-> Now,
     notes |-> input.notes, created_at |-> at]

PayoutRow(id, input, at) ==
    [id |-> id, affiliate_id |-> input.affiliate_id, amount |-> Amount(input.amount),
     method |-> input.method, bank_details |-> input.bank_details,
     ewallet_details |-> input.ewallet_details,
     status |-> "pending", processed_by |-> Null, processed_at |-> Null,
     notes |-> input.notes, created_at |-> at]

----------------------------------------------------------------------------
(* The empty database *)

Init ==
    /\ users = {}
    /\ affiliates = {}
    /\ programs = {}
    /\ registrations = {}
    /\ payouts = {}
    /\ serial = NoneDrawn
    /\ clock = 0
    /\ calls = NoCalls
    /\ last = NoCall

----------------------------------------------------------------------------
(* createUser: one INSERT; users.email is unique *)

CreateUserInputs ==
    [email : Emails, password_hash : {"hashed_password"}, full_name : {"Full Name"},
     phone : {NoNotes}, role : userRoleEnum]

(* the users table after an insert that replaces the users of the same    *)
(* name                                                                    *)
UsersUpserted(input) ==
    {u \in users : u.full_name # input.full_name}
        \cup {UserRow(NextId("users"), input, clock + 1)}

UsersInserted(input) == users \cup {UserRow(NextId("users"), input, clock + 1)}

(* the INSERT: it draws an id and stores the row unless the email is taken *)
InsertUser(input) ==
    /\ serial.users < MaxUsers
    /\ serial' = Drawn("users")
    /\ IF EmailUnique(input.email)
       THEN users' = UsersInserted(input) /\ clock' = clock + 1
       ELSE UNCHANGED <<users, clock>>

createUser(input) ==
    /\ InsertUser(input)
    /\ last' = IF EmailUnique(input.email)
               THEN Done("createUser", input, NextId("users"))
               ELSE Fail("createUser", input, ErrConstraint)
    /\ UNCHANGED <<affiliates, programs, registrations, payouts, calls>>

----------------------------------------------------------------------------
(* createAffiliate: a select of the user, a select of the user's profile,  *)
(* one select per candidate code, and the INSERT.  hadProfile is a history *)
(* field: whether the user had a profile when the call began.  op and      *)
(* formData tell a call of the handler from the one handleSubmit makes.    *)

CreateAffiliateInputs == [user_id : 1..(MaxUsers + 1), commission_rate : Rates]

HasProfile(uid) == \E a \in affiliates : a.user_id = uid

(* the response of the call in slot p when it ends with msg *)
Response(p, msg, row) ==
    IF calls[p].op = "handleSubmit"
    THEN [op |-> "handleSubmit", input |-> calls[p].formData,
          outcome |-> IF msg = Ok THEN Ok ELSE ErrRegistration, row |-> row,
          user |-> calls[p].input.user_id]
    ELSE IF calls[p].op = "createAffiliate"
    THEN [op |-> "createAffiliate", input |-> calls[p].input, outcome |-> msg,
          row |-> row, hadProfile |-> calls[p].hadProfile]
    ELSE [op |-> calls[p].op, input |-> calls[p].input, outcome |-> msg, row |-> row]

Finish(p, msg, row) == Return(p, Response(p, msg, row))

CreateAffiliateCall(op, input, formData) ==
    [pc |-> "selectUser", op |-> op, input |-> input, formData |-> formData,
     referralCode |-> "", attempts |-> 0, hadProfile |-> HasProfile(input.user_id)]

BeginCreateAffiliate(p, input) ==
    /\ Free(p)
    /\ Goto(p, CreateAffiliateCall("createAffiliate", input, Null))
    /\ UNCHANGED tables

SelectUser(p) ==
    /\ At(p, "selectUser")
    /\ IF ~UserExists(calls[p].input.user_id)
       THEN Finish(p, ErrUserNotFound, Null)
       ELSE Goto(p, [calls[p] EXCEPT !.pc = "selectAffiliate"])
    /\ UNCHANGED tables

SelectAffiliate(p) ==
    /\ At(p, "selectAffiliate")
    /\ IF HasProfile(calls[p].input.user_id)
       THEN Finish(p, ErrHasProfile, Null)
       ELSE Goto(p, [calls[p] EXCEPT !.pc = "generateCode"])
    /\ UNCHANGED tables

(* a loop that leaves with its first candidate, in use or not *)
GenerateCodeUnchecked(p) ==
    /\ At(p, "generateCode")
    /\ \E referralCode \in Codes :
         Goto(p, [calls[p] EXCEPT !.referralCode = referralCode,
                                  !.attempts = calls[p].attempts + 1,
                                  !.pc = "insert"])
    /\ UNCHANGED tables

(* one turn of the do-while loop: a random candidate and the select that   *)
(* looks for it                                                            *)
GenerateCode(p) ==
    /\ At(p, "generateCode")
    /\ \E referralCode \in Codes :
         LET isUnique == ~(\E a \in affiliates : a.referral_code = referralCode)
             attempts == calls[p].attempts + 1
         IN  IF attempts >= maxAttempts /\ ~isUnique
             THEN Finish(p, ErrNoUniqueCode, Null)
             ELSE Goto(p, [calls[p] EXCEPT !.referralCode = referralCode,
                                           !.attempts = attempts,
                                           !.pc = IF isUnique THEN "insert"
                                                  ELSE "generateCode"])
    /\ UNCHANGED tables

InsertAffiliateOk(input, code) ==
    /\ UserExists(input.user_id)
    /\ UserIdUnique(input.user_id)
    /\ ReferralCodeUnique(code)
    /\ RateFits(input.commission_rate)

Insert(p) ==
    /\ At(p, "insert")
    /\ serial.affiliates < MaxAffiliates
    /\ serial' = Drawn("affiliates")
    /\ IF InsertAffiliateOk(calls[p].input, calls[p].referralCode)
       THEN /\ affiliates' = affiliates \cup
                  {AffiliateRow(NextId("affiliates"), calls[p].input,
                                calls[p].referralCode, clock + 1)}
            /\ clock' = clock + 1
            /\ Finish(p, Ok, NextId("affiliates"))
       ELSE /\ Finish(p, ErrConstraint, Null)
            /\ UNCHANGED <<affiliates, clock>>
    /\ UNCHANGED <<users, programs, registrations, payouts>>

----------------------------------------------------------------------------
(* updateAffiliateStatus: one UPDATE.  Its set() skips a field whose value *)
(* is undefined, so approved_by keeps its stored value when the input      *)
(* carries none; the foreign key on approved_by rejects an id that is no   *)
(* user.                                                                   *)

UpdateAffiliateStatusInputs ==
    [affiliate_id : 1..(MaxAffiliates + 1), status : affiliateStatusEnum,
     approved_by : {Absent} \cup 0..(MaxUsers + 1)]

(* an update that never takes an approved affiliate back to pending *)
UpdatedAffiliateGuarded(row, input) ==
    IF row.status = "approved" /\ input.status = "pending"
    THEN row
    ELSE IF input.status = "approved"
    THEN [row EXCEPT !.status = input.status,
                     !.approved_by = IF input.approved_by = Absent THEN @ ELSE input.approved_by,
                     !.approved_at = Now]
    ELSE [row EXCEPT !.status = input.status, !.approved_by = Null, !.approved_at = Null]

UpdatedAffiliate(row, input) ==
    IF input.status = "approved"
    THEN [row EXCEPT !.status = input.status,
                     !.approved_by = IF input.approved_by = Absent THEN @ ELSE input.approved_by,
                     !.approved_at = Now]
    ELSE [row EXCEPT !.status = input.status, !.approved_by = Null, !.approved_at = Null]

updateAffiliateStatus(input) ==
    /\ IF ~Has(affiliates, input.affiliate_id)
       THEN /\ last' = Fail("updateAffiliateStatus", input, ErrAffiliateIdNotFound)
            /\ UNCHANGED affiliates
       ELSE IF input.status = "approved" /\ input.approved_by # Absent
                                         /\ ~UserExists(input.approved_by)
       THEN /\ last' = Fail("updateAffiliateStatus", input, ErrConstraint)
            /\ UNCHANGED affiliates
       ELSE /\ affiliates' = Set(affiliates, input.affiliate_id,
                                 UpdatedAffiliate(Row(affiliates, input.affiliate_id), input))
            /\ last' = Done("updateAffiliateStatus", input, input.affiliate_id)
    /\ UNCHANGED <<users, programs, registrations, payouts, serial, clock, calls>>

----------------------------------------------------------------------------
(* createProgram: one INSERT *)

CreateProgramInputs == [price : Prices, is_active : BOOLEAN]

createProgram(input) ==
    /\ serial.programs < MaxPrograms
    /\ serial' = Drawn("programs")
    /\ programs' = programs \cup {ProgramRow(NextId("programs"), input, clock + 1)}
    /\ clock' = clock + 1
    /\ last' = Done("createProgram", input, NextId("programs"))
    /\ UNCHANGED <<users, affiliates, registrations, payouts, calls>>

----------------------------------------------------------------------------
(* createStudentRegistration: a select of the affiliate, a select of the   *)
(* program, and the INSERT of a row computed from the two rows read        *)

CreateStudentRegistrationInputs ==
    [affiliate_id : 1..(MaxAffiliates + 1), program_id : 1..(MaxPrograms + 1),
     referral_code : Codes, student_name : {"Test Student"}]

(* a product cut down to hundredths *)
commissionAmountTruncated(programPrice, commissionRate) ==
    (programPrice \div RateScale) * commissionRate
        + ((programPrice % RateScale) * commissionRate) \div RateScale

(* programPrice * commissionRate in double precision, as the              *)
(* numeric(12,2) column stores its toString()                              *)
commissionAmount(programPrice, commissionRate) ==
    toNumeric(FMul(parseFloat(programPrice, Cents), parseFloat(commissionRate, RateScale)),
              Cents)

MatchingAffiliatesById(input) == {a \in affiliates : a.id = input.affiliate_id}

MatchingAffiliates(input) ==
    {a \in affiliates : /\ a.id = input.affiliate_id
                        /\ a.referral_code = input.referral_code}

BeginCreateStudentRegistration(p, input) ==
    /\ Free(p)
    /\ Goto(p, [pc |-> "regSelectAffiliate", op |-> "createStudentRegistration",
                input |-> input])
    /\ UNCHANGED tables

RegSelectAffiliate(p) ==
    /\ At(p, "regSelectAffiliate")
    /\ LET affiliate == MatchingAffiliates(calls[p].input)
       IN  IF affiliate = {}
           THEN Finish(p, ErrInvalidAffiliate, Null)
           ELSE IF (CHOOSE a \in affiliate : TRUE).status # "approved"
           THEN Finish(p, ErrNotApprovedReg, Null)
           ELSE Goto(p, [pc |-> "regSelectProgram", op |-> calls[p].op,
                         input |-> calls[p].input,
                         affiliate |-> CHOOSE a \in affiliate : TRUE])
    /\ UNCHANGED tables

RegSelectProgram(p) ==
    /\ At(p, "regSelectProgram")
    /\ IF ~Has(programs, calls[p].input.program_id)
       THEN Finish(p, ErrProgramNotFound, Null)
       ELSE IF ~Row(programs, calls[p].input.program_id).is_active
       THEN Finish(p, ErrProgramInactive, Null)
       ELSE Goto(p, [pc |-> "regInsert", op |-> calls[p].op, input |-> calls[p].input,
                     affiliate |-> calls[p].affiliate,
                     program |-> Row(programs, calls[p].input.program_id)])
    /\ UNCHANGED tables

RegInsert(p) ==
    /\ At(p, "regInsert")
    /\ serial.registrations < MaxRegistrations
    /\ serial' = Drawn("registrations")
    /\ LET programPrice == calls[p].program.price
           commissionRate == calls[p].affiliate.commission_rate
       IN  registrations' = registrations \cup
               {RegistrationRow(NextId("registrations"), calls[p].input,
                                Amount(programPrice),
                                commissionAmount(programPrice, commissionRate),
                                clock + 1)}
    /\ clock' = clock + 1
    /\ Finish(p, Ok, NextId("registrations"))
    /\ UNCHANGED <<users, affiliates, programs, payouts>>

----------------------------------------------------------------------------
(* updateRegistrationStatus: one UPDATE; confirmed_by is                   *)
(* input.confirmed_by || null                                              *)

UpdateRegistrationStatusInputs ==
    [registration_id : 1..(MaxRegistrations + 1), status : registrationStatusEnum,
     confirmed_by : {Absent} \cup 0..(MaxUsers + 1)]

OrNull(v) == IF v = Absent \/ v = 0 THEN Null ELSE v

(* an update that takes the commission back when the registration is      *)
(* cancelled                                                               *)
UpdatedRegistrationForfeits(row, input) ==
    IF input.status = "confirmed"
    THEN [row EXCEPT !.status = input.status,
                     !.confirmed_by = OrNull(input.confirmed_by),
                     !.confirmed_at = Now]
    ELSE [row EXCEPT !.status = input.status, !.confirmed_by = Null, !.confirmed_at = Null,
                     !.commission_amount = IF input.status = "cancelled" THEN 0 ELSE @]

(* an update that leaves the confirmation fields of a registration that   *)
(* is no longer confirmed                                                  *)
UpdatedRegistrationKeepsFields(row, input) ==
    IF input.status = "confirmed"
    THEN [row EXCEPT !.status = input.status,
                     !.confirmed_by = OrNull(input.confirmed_by),
                     !.confirmed_at = Now]
    ELSE [row EXCEPT !.status = input.status]

UpdatedRegistration(row, input) ==
    IF input.status = "confirmed"
    THEN [row EXCEPT !.status = input.status,
                     !.confirmed_by = OrNull(input.confirmed_by),
                     !.confirmed_at = Now]
    ELSE [row EXCEPT !.status = input.status, !.confirmed_by = Null, !.confirmed_at = Null]

(* an update that reports success also when no row has the id *)
updateRegistrationStatusSilent(input) ==
    /\ registrations' = IF Has(registrations, input.registration_id)
                        THEN Set(registrations, input.registration_id,
                                 UpdatedRegistration(Row(registrations, input.registration_id),
                                                     input))
                        ELSE registrations
    /\ last' = Done("updateRegistrationStatus", input, input.registration_id)
    /\ UNCHANGED <<users, affiliates, programs, payouts, serial, clock, calls>>

updateRegistrationStatus(input) ==
    /\ IF ~Has(registrations, input.registration_id)
       THEN /\ last' = Fail("updateRegistrationStatus", input, ErrRegistrationNotFound)
            /\ UNCHANGED registrations
       ELSE IF ~RefOk(UpdatedRegistration(Row(registrations, input.registration_id),
                                          input).confirmed_by)
       THEN /\ last' = Fail("updateRegistrationStatus", input, ErrConstraint)
            /\ UNCHANGED registrations
       ELSE /\ registrations' = Set(registrations, input.registration_id,
                                    UpdatedRegistration(Row(registrations,
                                                            input.registration_id), input))
            /\ last' = Done("updateRegistrationStatus", input, input.registration_id)
    /\ UNCHANGED <<users, affiliates, programs, payouts, serial, clock, calls>>

----------------------------------------------------------------------------
(* createCommissionPayout: a select of the affiliate, the sum of its       *)
(* confirmed commissions, the sum of its completed payouts, and the        *)
(* INSERT.  The two sums come from the database as decimal strings; the    *)
(* balance is their difference in double precision.                        *)

CreateCommissionPayoutInputs ==
    [affiliate_id : 1..(MaxAffiliates + 1), amount : Amounts, method : {"bank_transfer"},
     bank_details : {"{bank}"}, ewallet_details : {NoNotes}, notes : {NoNotes}]

confirmedEarningsNotCancelled(aid) ==
    Sum({reg \in registrations : reg.affiliate_id = aid /\ reg.status # "cancelled"},
        "commission_amount")

(* sum(commission_amount) where affiliate_id = aid and status = 'confirmed' *)
confirmedEarnings(aid) ==
    Sum({reg \in registrations : reg.affiliate_id = aid /\ reg.status = "confirmed"},
        "commission_amount")

(* sum(amount) where affiliate_id = aid and status = 'completed' *)
completedPayouts(aid) ==
    Sum({payout \in payouts : payout.affiliate_id = aid /\ payout.status = "completed"},
        "amount")

availableBalance(totalEarnings, totalPaidOut) ==
    FSub(parseFloat(totalEarnings, Cents), parseFloat(totalPaidOut, Cents))

BeginCreateCommissionPayout(p, input) ==
    /\ Free(p)
    /\ Goto(p, [pc |-> "payoutSelectAffiliate", op |-> "createCommissionPayout",
                input |-> input])
    /\ UNCHANGED tables

PayoutSelectAffiliate(p) ==
    /\ At(p, "payoutSelectAffiliate")
    /\ IF ~Has(affiliates, calls[p].input.affiliate_id)
       THEN Finish(p, ErrPayoutAffiliateNotFound, Null)
       ELSE IF Row(affiliates, calls[p].input.affiliate_id).status # "approved"
       THEN Finish(p, ErrNotApprovedPayout, Null)
       ELSE Goto(p, [calls[p] EXCEPT !.pc = "payoutSumEarnings"])
    /\ UNCHANGED tables

PayoutSumEarnings(p) ==
    /\ At(p, "payoutSumEarnings")
    /\ Goto(p, [pc |-> "payoutSumPayouts", op |-> calls[p].op, input |-> calls[p].input,
                totalEarnings |-> confirmedEarnings(calls[p].input.affiliate_id)])
    /\ UNCHANGED tables

PayoutSumPayouts(p) ==
    /\ At(p, "payoutSumPayouts")
    /\ IF FGt(parseFloat(calls[p].input.amount, Cents),
              availableBalance(calls[p].totalEarnings,
                               completedPayouts(calls[p].input.affiliate_id)))
       THEN Finish(p, ErrInsufficient, Null)
       ELSE Goto(p, [pc |-> "payoutInsert", op |-> calls[p].op, input |-> calls[p].input,
                     totalEarnings |-> calls[p].totalEarnings,
                     totalPaidOut |-> completedPayouts(calls[p].input.affiliate_id)])
    /\ UNCHANGED tables

PayoutInsert(p) ==
    /\ At(p, "payoutInsert")
    /\ serial.payouts < MaxPayouts
    /\ serial' = Drawn("payouts")
    /\ payouts' = payouts \cup {PayoutRow(NextId("payouts"), calls[p].input, clock + 1)}
    /\ clock' = clock + 1
    /\ Finish(p, Ok, NextId("payouts"))
    /\ UNCHANGED <<users, affiliates, programs, registrations>>

(* The createCommissionPayout procedure of the router: the input is parsed *)
(* by createCommissionPayoutInputSchema before the handler is called; a    *)
(* request the schema rejects never reaches the handler.                   *)

createCommissionPayoutInputSchemaNoMin(input) == input.affiliate_id \in Int

createCommissionPayoutInputSchema(input) == input.amount >= MinPayoutAmount * Cents

appRouter_createCommissionPayout(p, input) ==
    IF createCommissionPayoutInputSchema(input)
    THEN BeginCreateCommissionPayout(p, input)
    ELSE /\ Free(p)
         /\ last' = Fail("appRouter.createCommissionPayout", input, ErrBadRequest)
         /\ UNCHANGED <<tables, calls>>

----------------------------------------------------------------------------
(* updatePayoutStatus: a select of the payout, then the UPDATE.            *)
(* processed_by and notes are written only when the input carries them     *)
(* (set() skips undefined)                                                 *)

UpdatePayoutStatusInputs ==
    [payout_id : 1..(MaxPayouts + 1), status : payoutStatusEnum,
     processed_by : {Absent} \cup 1..(MaxUsers + 1),
     notes : {AbsentNotes, NoNotes} \cup NoteTexts]

(* a handler that refuses to move a payout backwards: the status is kept  *)
(* when the requested one precedes it                                     *)
UpdatedPayoutGuarded(row, input) ==
    LET back == \/ row.status \in {"completed", "failed"}
                   /\ input.status \in {"pending", "processing"}
                \/ row.status = "processing" /\ input.status = "pending"
        r1 == IF back THEN row ELSE [row EXCEPT !.status = input.status]
        r2 == IF input.status = "completed" \/ input.status = "failed"
              THEN [r1 EXCEPT !.processed_by = IF input.processed_by = Absent
                                               THEN @ ELSE input.processed_by,
                              !.processed_at = Now]
              ELSE r1
    IN  IF input.notes # AbsentNotes THEN [r2 EXCEPT !.notes = input.notes] ELSE r2

(* an update that takes a missing notes field for null *)
UpdatedPayoutClearsNotes(row, input) ==
    LET r1 == [row EXCEPT !.status = input.status]
        r2 == IF input.status = "completed" \/ input.status = "failed"
              THEN [r1 EXCEPT !.processed_by = IF input.processed_by = Absent
                                               THEN @ ELSE input.processed_by,
                              !.processed_at = Now]
              ELSE r1
    IN  [r2 EXCEPT !.notes = IF input.notes = AbsentNotes THEN NoNotes ELSE input.notes]

UpdatedPayout(row, input) ==
    LET r1 == [row EXCEPT !.status = input.status]
        r2 == IF input.status = "completed" \/ input.status = "failed"
              THEN [r1 EXCEPT !.processed_by = IF input.processed_by = Absent
                                               THEN @ ELSE input.processed_by,
                              !.processed_at = Now]
              ELSE r1
    IN  IF input.notes # AbsentNotes THEN [r2 EXCEPT !.notes = input.notes] ELSE r2

BeginUpdatePayoutStatus(p, input) ==
    /\ Free(p)
    /\ Goto(p, [pc |-> "payoutStatusSelect", op |-> "updatePayoutStatus", input |-> input])
    /\ UNCHANGED tables

PayoutStatusSelect(p) ==
    /\ At(p, "payoutStatusSelect")
    /\ IF ~Has(payouts, calls[p].input.payout_id)
       THEN Finish(p, ErrPayoutNotFound, Null)
       ELSE Goto(p, [calls[p] EXCEPT !.pc = "payoutStatusUpdate"])
    /\ UNCHANGED tables

(* the UPDATE changes the rows that have the id: none when there is no    *)
(* such row, and then result[0] is undefined and reading its amount throws *)
PayoutStatusUpdate(p) ==
    /\ At(p, "payoutStatusUpdate")
    /\ LET input == calls[p].input
       IN  IF ~Has(payouts, input.payout_id)
           THEN /\ Finish(p, ErrNoRow, Null)
                /\ UNCHANGED payouts
           ELSE IF (input.status = "completed" \/ input.status = "failed")
                   /\ input.processed_by # Absent /\ ~UserExists(input.processed_by)
           THEN /\ Finish(p, ErrConstraint, Null)
                /\ UNCHANGED payouts
           ELSE /\ payouts' = Set(payouts, input.payout_id,
                                  UpdatedPayout(Row(payouts, input.payout_id), input))
                /\ Finish(p, Ok, input.payout_id)
    /\ UNCHANGED <<users, affiliates, programs, registrations, serial, clock>>

----------------------------------------------------------------------------
(* getAffiliateStats: a select of the affiliate's registrations, then a    *)
(* select of its payouts, and the statistics of the rows the two returned  *)

GetAffiliateStatsInputs ==
    [affiliate_id : 1..(MaxAffiliates + 1), start_date : {Absent}, end_date : {Absent}]

(* a range that leaves out the records created at its two ends *)
InRangeExclusive(at, input) ==
    /\ input.start_date # Absent => at > input.start_date
    /\ input.end_date # Absent => at < input.end_date

(* a date the schema has parsed is an object and so always truthy: the    *)
(* filter is applied whenever the field is present                        *)
InRange(at, input) ==
    /\ input.start_date # Absent => at >= input.start_date
    /\ input.end_date # Absent => at <= input.end_date

isPendingPayout(payout) == payout.status = "pending" \/ payout.status = "processing"

(* the statistics of the rows read, for each order in which the three     *)
(* sums can meet their terms                                               *)
AffiliateStats(regs, pays) ==
    {[total_registrations |-> Cardinality(regs),
      confirmed_registrations |-> Cardinality({reg \in regs : reg.status = "confirmed"}),
      pending_registrations |-> Cardinality({reg \in regs : reg.status = "pending"}),
      total_commission_earned |-> totalCommissionEarned,
      total_commission_paid |-> totalCommissionPaid,
      pending_commission |-> pendingCommission,
      available_for_payout |->
          LET availableAmount == FSub(FSub(totalCommissionEarned, totalCommissionPaid),
                                      pendingCommission)
          IN  IF FGe(availableAmount, parseFloat(MinAvailable, 1))
              THEN availableAmount ELSE FZero] :
        totalCommissionEarned \in
            reduce({reg \in regs : reg.status = "confirmed"}, "commission_amount", FZero),
        totalCommissionPaid \in
            reduce({payout \in pays : payout.status = "completed"}, "amount", FZero),
        pendingCommission \in
            reduce({payout \in pays : isPendingPayout(payout)}, "amount", FZero)}

(* the call of getAffiliateStats, made by a request of its own or by      *)
(* loadAffiliateData for the profile it found                              *)
StatsCall(op, input, user, affiliate) ==
    [pc |-> "statsSelectRegistrations", op |-> op, input |-> input, user |-> user,
     affiliate |-> affiliate, registrations |-> {}]

NoRow == [id |-> Null]

BeginGetAffiliateStats(p, input) ==
    /\ Free(p)
    /\ Goto(p, StatsCall("getAffiliateStats", input, Null, NoRow))
    /\ UNCHANGED tables

StatsSelectRegistrations(p) ==
    /\ At(p, "statsSelectRegistrations")
    /\ Goto(p, [calls[p] EXCEPT
                  !.pc = "statsSelectPayouts",
                  !.registrations =
                      {reg \in registrations :
                         /\ reg.affiliate_id = calls[p].input.affiliate_id
                         /\ InRange(reg.created_at, calls[p].input)}])
    /\ UNCHANGED tables

(* what the dashboard shows for the profile and error it holds *)
AffiliateDashboard(affiliate, error) ==
    IF error # "" \/ affiliate = NoRow THEN "error"
    ELSE IF affiliate.status = "pending" THEN "pending notice"
    ELSE IF affiliate.status = "rejected" THEN "rejected notice"
    ELSE IF affiliate.status = "suspended" THEN "suspended notice"
    ELSE "dashboard"

StatsResponse(p, stats) ==
    IF calls[p].op = "loadAffiliateData"
    THEN [op |-> "loadAffiliateData", input |-> calls[p].user, outcome |-> Ok,
          row |-> Null, affiliate |-> calls[p].affiliate, error |-> "", stats |-> stats,
          view |-> AffiliateDashboard(calls[p].affiliate, "")]
    ELSE [op |-> "getAffiliateStats", input |-> calls[p].input, outcome |-> Ok,
          row |-> Null, registrations |-> calls[p].registrations, stats |-> stats]

StatsSelectPayouts(p) ==
    /\ At(p, "statsSelectPayouts")
    /\ \E stats \in AffiliateStats(calls[p].registrations,
                                    {payout \in payouts :
                                       /\ payout.affiliate_id = calls[p].input.affiliate_id
                                       /\ InRange(payout.created_at, calls[p].input)}) :
         Return(p, StatsResponse(p, stats))
    /\ UNCHANGED tables

----------------------------------------------------------------------------
(* getAffiliates and getCommissionPayouts: one query each, the rows that   *)
(* pass the filters, ordered by created_at descending, cut to the page     *)
(* (limit, offset).  ORDER BY names created_at alone, so the order among   *)
(* rows created at the same time is whatever the database produces for     *)
(* that query: each query takes one of the orderings that are descending   *)
(* in created_at.  A page is the sequence of the ids of its rows.          *)

(* the orderings of the rows that are descending in created_at: a row     *)
(* with the greatest created_at comes first, followed by an ordering of    *)
(* the others                                                              *)
RECURSIVE Orderings(_)
Orderings(rows) ==
    IF rows = {} THEN {<<>>}
    ELSE UNION { { <<x.id>> \o p : p \in Orderings(rows \ {x}) } :
                 x \in { y \in rows : \A z \in rows : y.created_at >= z.created_at } }

Min(a, b) == IF a < b THEN a ELSE b

Page(rows, limit, offset) == SubSeq(rows, offset + 1, Min(Len(rows), offset + limit))

Listed(op, input, page) ==
    [op |-> op, input |-> input, outcome |-> Ok, row |-> Null, page |-> page]

(* a call without filters *)
NoFilters == [status |-> NoStatus, approved_by |-> Absent, limit |-> Absent, offset |-> Absent]

(* filters inside the schema, and three outside its bounds *)
GetAffiliatesInputs ==
    [status : {NoStatus, "approved"}, approved_by : {Absent, 1}, limit : {Absent, 1},
     offset : {Absent, 0, 1}]
    \cup [status : {NoStatus}, approved_by : {Absent}, limit : {0, MaxLimit + 1}, offset : {0}]
    \cup [status : {NoStatus}, approved_by : {Absent}, limit : {1}, offset : {0 - 1}]

(* getAffiliatesInputSchema.parse: the filters with the defaults filled   *)
(* in, or the ZodError for a limit or an offset outside the bounds         *)
getAffiliatesInputSchema(input) ==
    IF \/ input.limit # Absent /\ (input.limit < 1 \/ input.limit > MaxLimit)
       \/ input.offset # Absent /\ input.offset < 0
    THEN [success |-> FALSE, error |-> ErrZod]
    ELSE [success |-> TRUE,
          data |-> [input EXCEPT !.limit = IF @ = Absent THEN DefaultLimit ELSE @,
                                 !.offset = IF @ = Absent THEN 0 ELSE @]]

(* the pages the query may return; none when the filters do not parse *)
AffiliatesListed(input) ==
    LET parsed == getAffiliatesInputSchema(input)
        filters == parsed.data
        rows == { a \in affiliates :
                    /\ UserExists(a.user_id)
                    /\ filters.status # NoStatus => a.status = filters.status
                    /\ (filters.approved_by # Absent /\ filters.approved_by # 0)
                       => a.approved_by = filters.approved_by }
    IN  IF ~parsed.success THEN {}
        ELSE { Page(p, filters.limit, filters.offset) : p \in Orderings(rows) }

getAffiliates(input) ==
    /\ IF getAffiliatesInputSchema(input).success
       THEN \E page \in AffiliatesListed(input) :
               last' = Listed("getAffiliates", input, page)
       ELSE last' = Fail("getAffiliates", input, ErrZod)
    /\ UNCHANGED <<tables, calls>>

(* the router's getAffiliates takes no input: whatever the client sends,   *)
(* the handler is called without filters                                   *)
appRouter_getAffiliates(input) ==
    /\ \E page \in AffiliatesListed(NoFilters) :
         last' = Listed("appRouter.getAffiliates", input, page)
    /\ UNCHANGED <<tables, calls>>

(* the filter objects getCommissionPayouts is called with *)
GetCommissionPayoutsInputs ==
    [affiliate_id : {Absent, 1}, status : {NoStatus, "pending"},
     start_date : {Absent}, end_date : {Absent}, limit : {DefaultLimit, 1}, offset : {0, 1}]

(* what the router's getCommissionPayouts is sent: a number or nothing,    *)
(* the affiliate whose payouts are asked for, or a filter object           *)
RouterCommissionPayoutsInputs ==
    [affiliateId : {Absent} \cup 1..MaxAffiliates] \cup GetCommissionPayoutsInputs

getCommissionPayoutsInternal(op, sent, input) ==
    LET rows == { payout \in payouts :
                    /\ input.affiliate_id # Absent => payout.affiliate_id = input.affiliate_id
                    /\ input.status # NoStatus => payout.status = input.status
                    /\ InRange(payout.created_at, input) }
    IN  /\ \E p \in Orderings(rows) :
             last' = Listed(op, sent, Page(p, input.limit, input.offset))
        /\ UNCHANGED <<tables, calls>>

(* called with a number or with nothing, getCommissionPayouts lists with   *)
(* limit 50 and offset 0; called with an object it uses the object's own   *)
(* limit and offset                                                        *)
getCommissionPayouts(inputOrAffiliateId) ==
    IF "affiliateId" \in DOMAIN inputOrAffiliateId
    THEN getCommissionPayoutsInternal(
             "getCommissionPayouts", inputOrAffiliateId,
             [affiliate_id |-> inputOrAffiliateId.affiliateId, status |-> NoStatus,
              start_date |-> Absent, end_date |-> Absent,
              limit |-> DefaultLimit, offset |-> 0])
    ELSE getCommissionPayoutsInternal("getCommissionPayouts", inputOrAffiliateId,
                                      inputOrAffiliateId)

(* the router's getCommissionPayouts takes a number or nothing and refuses *)
(* a filter object before the handler is called                            *)
appRouter_getCommissionPayouts(input) ==
    IF "affiliateId" \in DOMAIN input
    THEN getCommissionPayouts(input)
    ELSE /\ last' = Fail("appRouter.getCommissionPayouts", input, ErrBadRequest)
         /\ UNCHANGED <<tables, calls>>

----------------------------------------------------------------------------
(* AffiliateRegistrationForm.handleSubmit: the form calls createUser with  *)
(* role 'affiliate' and, when that returned, createAffiliate for the new   *)
(* user's id with the default rate 0.10; an error of either call is caught *)
(* and shown as one message.  Nothing is undone when the second call       *)
(* fails.                                                                  *)

FormInputs == [email : Emails, full_name : {"Full Name"}, phone : {NoNotes}]

userData(formData) ==
    [email |-> formData.email, password_hash |-> "temp_hash",
     full_name |-> formData.full_name, phone |-> formData.phone, role |-> "affiliate"]

affiliateData(user) == [user_id |-> user, commission_rate |-> DefaultCommissionRate]

BeginHandleSubmit(p, formData) ==
    /\ Free(p)
    /\ Goto(p, [pc |-> "submitCreateUser", op |-> "handleSubmit", formData |-> formData])
    /\ UNCHANGED tables

SubmitCreateUser(p) ==
    /\ At(p, "submitCreateUser")
    /\ InsertUser(userData(calls[p].formData))
    /\ IF EmailUnique(calls[p].formData.email)
       THEN Goto(p, CreateAffiliateCall("handleSubmit", affiliateData(NextId("users")),
                                        calls[p].formData))
       ELSE Return(p, [op |-> "handleSubmit", input |-> calls[p].formData,
                       outcome |-> ErrRegistration, row |-> Null, user |-> Null])
    /\ UNCHANGED <<affiliates, programs, registrations, payouts>>

----------------------------------------------------------------------------
(* AffiliateDashboard.loadAffiliateData asks the router for getAffiliates  *)
(* (the procedure passes no input, so the handler's defaults apply: the    *)
(* 50 newest affiliates), looks for the affiliate of the logged-in user in *)
(* the answer and, for the profile found, fetches its statistics; the      *)
(* component then renders the error, a notice for the profile's status,    *)
(* or the dashboard.                                                       *)

BeginLoadAffiliateData(p, user) ==
    /\ Free(p)
    /\ Goto(p, [pc |-> "loadGetAffiliates", op |-> "loadAffiliateData", user |-> user])
    /\ UNCHANGED tables

LoadGetAffiliates(p) ==
    /\ At(p, "loadGetAffiliates")
    /\ \E page \in AffiliatesListed(NoFilters) :
         LET found == { i \in DOMAIN page : Row(affiliates, page[i]).user_id = calls[p].user }
             userAffiliate == Row(affiliates,
                                  page[CHOOSE i \in found : \A j \in found : i <= j])
         IN  IF found = {}
             THEN Return(p, [op |-> "loadAffiliateData", input |-> calls[p].user,
                             outcome |-> Ok, row |-> Null, affiliate |-> NoRow,
                             error |-> ErrProfileNotFound, stats |-> Null,
                             view |-> AffiliateDashboard(NoRow, ErrProfileNotFound)])
             ELSE Goto(p, StatsCall("loadAffiliateData",
                                    [affiliate_id |-> userAffiliate.id,
                                     start_date |-> Absent, end_date |-> Absent],
                                    calls[p].user, userAffiliate))
    /\ UNCHANGED tables

----------------------------------------------------------------------------
(* The whole system from the empty database *)

Next ==
    \/ \E input \in CreateUserInputs : createUser(input)
    \/ \E p \in Procs, input \in CreateAffiliateInputs : BeginCreateAffiliate(p, input)
    \/ \E p \in Procs : SelectUser(p)
    \/ \E p \in Procs : SelectAffiliate(p)
    \/ \E p \in Procs : GenerateCode(p)
    \/ \E p \in Procs : Insert(p)
    \/ \E input \in UpdateAffiliateStatusInputs : updateAffiliateStatus(input)
    \/ \E input \in CreateProgramInputs : createProgram(input)
    \/ \E p \in Procs, input \in CreateStudentRegistrationInputs :
         BeginCreateStudentRegistration(p, input)
    \/ \E p \in Procs : RegSelectAffiliate(p)
    \/ \E p \in Procs : RegSelectProgram(p)
    \/ \E p \in Procs : RegInsert(p)
    \/ \E input \in UpdateRegistrationStatusInputs : updateRegistrationStatus(input)
    \/ \E p \in Procs, input \in CreateCommissionPayoutInputs :
         appRouter_createCommissionPayout(p, input)
    \/ \E p \in Procs : PayoutSelectAffiliate(p)
    \/ \E p \in Procs : PayoutSumEarnings(p)
    \/ \E p \in Procs : PayoutSumPayouts(p)
    \/ \E p \in Procs : PayoutInsert(p)
    \/ \E p \in Procs, input \in UpdatePayoutStatusInputs : BeginUpdatePayoutStatus(p, input)
    \/ \E p \in Procs : PayoutStatusSelect(p)
    \/ \E p \in Procs : PayoutStatusUpdate(p)
    \/ \E p \in Procs, input \in GetAffiliateStatsInputs : BeginGetAffiliateStats(p, input)
    \/ \E p \in Procs : StatsSelectRegistrations(p)
    \/ \E p \in Procs : StatsSelectPayouts(p)
    \/ \E input \in GetAffiliatesInputs : appRouter_getAffiliates(input)
    \/ \E input \in RouterCommissionPayoutsInputs : appRouter_getCommissionPayouts(input)
    \/ \E p \in Procs, formData \in FormInputs : BeginHandleSubmit(p, formData)
    \/ \E p \in Procs : SubmitCreateUser(p)
    \/ \E p \in Procs, user \in 1..MaxUsers : BeginLoadAffiliateData(p, user)
    \/ \E p \in Procs : LoadGetAffiliates(p)

Spec == Init /\ [][Next]_vars

----------------------------------------------------------------------------
(* Databases the handlers above produce, used as starting points: two      *)
(* users; two affiliates; one active program                               *)

SeedUsers ==
    { UserRow(1, [email |-> "admin@eb.id", password_hash |-> "hashed_password",
                  full_name |-> "Full Name", phone |-> NoNotes, role |-> "admin"], 1),
      UserRow(2, [email |-> "aff@eb.id", password_hash |-> "hashed_password",
                  full_name |-> "Full Name", phone |-> NoNotes, role |-> "affiliate"], 2) }

SeedAffiliate(id, rate, code, status, at) ==
    UpdatedAffiliate(AffiliateRow(id, [user_id |-> id, commission_rate |-> rate], code, at),
                     [status |-> status, approved_by |-> 1])

SeedPrograms == { ProgramRow(1, [price |-> 100000000, is_active |-> TRUE], 5) }

(* the database holds the given rows, whose ids are the first its          *)
(* sequences drew, and no request is in progress                           *)
Database(u, a, pr, r, pa, at) ==
    /\ users = u
    /\ affiliates = a
    /\ programs = pr
    /\ registrations = r
    /\ payouts = pa
    /\ serial = [users |-> Cardinality(u), affiliates |-> Cardinality(a),
                 programs |-> Cardinality(pr), registrations |-> Cardinality(r),
                 payouts |-> Cardinality(pa)]
    /\ clock = at
    /\ calls = NoCalls
    /\ last = NoCall

(* Affiliate management: createAffiliate and updateAffiliateStatus, two     *)
(* requests at a time.  The request that arrives first is for user 1 or    *)
(* for a user that does not exist; the request that arrives while it is in *)
(* progress is for user 1 or for user 2.                                   *)

InitAffiliate == Database(SeedUsers, {}, {}, {}, {}, 2)

AffiliateInputs == [user_id : {1, 2, MaxUsers + 1}, commission_rate : {1000}]
AffiliateStatusInputs ==
    [affiliate_id : {1}, status : {"approved"}, approved_by : {Absent, 1}]

NextAffiliate ==
    \/ \E p \in Procs, input \in AffiliateInputs :
         /\ input.user_id \in (IF p = 1 THEN {1, MaxUsers + 1} ELSE {1, 2})
         /\ BeginCreateAffiliate(p, input)
    \/ \E p \in Procs : SelectUser(p)
    \/ \E p \in Procs : SelectAffiliate(p)
    \/ \E p \in Procs : GenerateCode(p)
    \/ \E p \in Procs : Insert(p)
    \/ \E input \in AffiliateStatusInputs : updateAffiliateStatus(input)

SpecAffiliate == InitAffiliate /\ [][NextAffiliate]_vars

(* Student registrations: affiliate 1 is approved, affiliate 2 is         *)
(* suspended; programs are created by createProgram                       *)

InitRegistration ==
    Database(SeedUsers,
             { SeedAffiliate(1, 555, "EBAAAA", "approved", 3),
               SeedAffiliate(2, 1000, "EBBBBB", "suspended", 4) },
             {}, {}, {}, 4)

RegistrationInputs ==
    [affiliate_id : {1, 2, MaxAffiliates + 1}, program_id : {1, MaxPrograms + 1},
     referral_code : {"EBAAAA", "EBBBBB"}, student_name : {"Test Student"}]
RegistrationStatusInputs ==
    [registration_id : {1, 2}, status : registrationStatusEnum,
     confirmed_by : {Absent, 0, 2}]

NextRegistration ==
    \/ \E input \in CreateProgramInputs : createProgram(input)
    \/ \E p \in Procs, input \in RegistrationInputs : BeginCreateStudentRegistration(p, input)
    \/ \E p \in Procs : RegSelectAffiliate(p)
    \/ \E p \in Procs : RegSelectProgram(p)
    \/ \E p \in Procs : RegInsert(p)
    \/ \E input \in RegistrationStatusInputs : updateRegistrationStatus(input)

SpecRegistration == InitRegistration /\ [][NextRegistration]_vars

(* Commission payouts: affiliates 1 and 2 are approved, the one program    *)
(* costs 3,000,003.00, and one student is registered for affiliate 1,     *)
(* whose commission on the registration is 300,000.30.  Requests are made  *)
(* one after the other; updateRegistrationStatus, a single statement,      *)
(* falls between the statements of the request in progress.                *)

PayoutPrograms == { ProgramRow(1, [price |-> 300000300, is_active |-> TRUE], 5) }

PayoutRegistrations ==
    { RegistrationRow(1, [affiliate_id |-> 1, program_id |-> 1, referral_code |-> "EBAAAA",
                          student_name |-> "Test Student"],
                      300000300, commissionAmount(300000300, 1000), 6) }

InitPayout ==
    Database(SeedUsers,
             { SeedAffiliate(1, 1000, "EBAAAA", "approved", 3),
               SeedAffiliate(2, 555, "EBBBBB", "approved", 4) },
             PayoutPrograms, PayoutRegistrations, {}, 6)

PayoutConfirmInputs ==
    [registration_id : {1}, status : registrationStatusEnum, confirmed_by : {1}]
PayoutRequestInputs ==
    [affiliate_id : {1}, amount : {10000010, 10000020, 20000020},
     method : {"bank_transfer"}, bank_details : {"{bank}"}, ewallet_details : {NoNotes},
     notes : {NoNotes}]
PayoutStatusInputs ==
    [payout_id : 1..MaxPayouts, status : payoutStatusEnum, processed_by : {1},
     notes : {AbsentNotes}]
PayoutStatsInputs == [affiliate_id : {1, 2}, start_date : {Absent}, end_date : {Absent}]

(* no request is in progress *)
Quiet == calls = NoCalls

NextPayout ==
    \/ \E input \in PayoutConfirmInputs : updateRegistrationStatus(input)
    \/ \E p \in Procs, input \in PayoutRequestInputs :
         Quiet /\ appRouter_createCommissionPayout(p, input)
    \/ \E p \in Procs : PayoutSelectAffiliate(p)
    \/ \E p \in Procs : PayoutSumEarnings(p)
    \/ \E p \in Procs : PayoutSumPayouts(p)
    \/ \E p \in Procs : PayoutInsert(p)
    \/ \E p \in Procs, input \in PayoutStatusInputs :
         Quiet /\ BeginUpdatePayoutStatus(p, input)
    \/ \E p \in Procs : PayoutStatusSelect(p)
    \/ \E p \in Procs : PayoutStatusUpdate(p)
    \/ \E p \in Procs, input \in PayoutStatsInputs :
         Quiet /\ BeginGetAffiliateStats(p, input)
    \/ \E p \in Procs : StatsSelectRegistrations(p)
    \/ \E p \in Procs : StatsSelectPayouts(p)

SpecPayout == InitPayout /\ [][NextPayout]_vars

(* Payout processing: affiliate 1 is approved and has one confirmed        *)
(* registration with a commission of 100,000.00, affiliate 2 is           *)
(* suspended.  Requests are made one after the other.                     *)

SeedRegistrations ==
    { UpdatedRegistration(
        RegistrationRow(1, [affiliate_id |-> 1, program_id |-> 1, referral_code |-> "EBAAAA",
                            student_name |-> "Test Student"],
                        100000000, commissionAmount(100000000, 1000), 6),
        [status |-> "confirmed", confirmed_by |-> 1]) }

InitPayoutStatus ==
    Database(SeedUsers,
             { SeedAffiliate(1, 1000, "EBAAAA", "approved", 3),
               SeedAffiliate(2, 555, "EBBBBB", "suspended", 4) },
             SeedPrograms, SeedRegistrations, {}, 6)

RequestPayoutInputs ==
    [affiliate_id : 1..MaxAffiliates, amount : {MinPayoutAmount * Cents},
     method : {"bank_transfer"}, bank_details : {"{bank}"}, ewallet_details : {NoNotes},
     notes : {NoNotes}]
ProcessPayoutInputs ==
    [payout_id : 1..MaxPayouts, status : payoutStatusEnum,
     processed_by : {Absent, 1, MaxUsers + 1}, notes : {AbsentNotes} \cup NoteTexts]

NextPayoutStatus ==
    \/ \E p \in Procs, input \in RequestPayoutInputs :
         Quiet /\ appRouter_createCommissionPayout(p, input)
    \/ \E p \in Procs : PayoutSelectAffiliate(p)
    \/ \E p \in Procs : PayoutSumEarnings(p)
    \/ \E p \in Procs : PayoutSumPayouts(p)
    \/ \E p \in Procs : PayoutInsert(p)
    \/ \E p \in Procs, input \in ProcessPayoutInputs :
         Quiet /\ BeginUpdatePayoutStatus(p, input)
    \/ \E p \in Procs : PayoutStatusSelect(p)
    \/ \E p \in Procs : PayoutStatusUpdate(p)

SpecPayoutStatus == InitPayoutStatus /\ [][NextPayoutStatus]_vars

(* Payout requests through the router: affiliate 1 is approved and has    *)
(* one confirmed registration with a commission of 300,000.30; the        *)
(* amounts asked for lie on both sides of the schema's minimum             *)

InitRouterPayout ==
    Database(SeedUsers,
             { SeedAffiliate(1, 1000, "EBAAAA", "approved", 3),
               SeedAffiliate(2, 555, "EBBBBB", "suspended", 4) },
             PayoutPrograms,
             { UpdatedRegistration(reg, [status |-> "confirmed", confirmed_by |-> 1]) :
                 reg \in PayoutRegistrations },
             {}, 6)

RouterPayoutInputs ==
    [affiliate_id : {1}, amount : Amounts, method : {"bank_transfer"},
     bank_details : {"{bank}"}, ewallet_details : {NoNotes}, notes : {NoNotes}]
RouterStatusInputs ==
    [payout_id : 1..MaxPayouts, status : {"completed", "failed"}, processed_by : {1},
     notes : {AbsentNotes}]

NextRouterPayout ==
    \/ \E p \in Procs, input \in RouterPayoutInputs :
         appRouter_createCommissionPayout(p, input)
    \/ \E p \in Procs : PayoutSelectAffiliate(p)
    \/ \E p \in Procs : PayoutSumEarnings(p)
    \/ \E p \in Procs : PayoutSumPayouts(p)
    \/ \E p \in Procs : PayoutInsert(p)
    \/ \E p \in Procs, input \in RouterStatusInputs :
         BeginUpdatePayoutStatus(p, input)
    \/ \E p \in Procs : PayoutStatusSelect(p)
    \/ \E p \in Procs : PayoutStatusUpdate(p)

SpecRouterPayout == InitRouterPayout /\ [][NextRouterPayout]_vars

(* Onboarding: affiliates are created for the two users with any of the    *)
(* rates, approved, and register students for the one program.  Requests   *)
(* are made one after the other.                                           *)

InitOnboarding == Database(SeedUsers, {}, SeedPrograms, {}, {}, 5)

OnboardingAffiliateInputs == [user_id : {1, 2}, commission_rate : Rates]
OnboardingStatusInputs ==
    [affiliate_id : {1, 2}, status : {"approved"}, approved_by : {1}]
OnboardingRegistrationInputs ==
    [affiliate_id : {1}, program_id : {1}, referral_code : Codes,
     student_name : {"Test Student"}]

NextOnboarding ==
    \/ \E p \in Procs, input \in OnboardingAffiliateInputs :
         Quiet /\ BeginCreateAffiliate(p, input)
    \/ \E p \in Procs : SelectUser(p)
    \/ \E p \in Procs : SelectAffiliate(p)
    \/ \E p \in Procs : GenerateCode(p)
    \/ \E p \in Procs : Insert(p)
    \/ \E input \in OnboardingStatusInputs : updateAffiliateStatus(input)
    \/ \E p \in Procs, input \in OnboardingRegistrationInputs :
         Quiet /\ BeginCreateStudentRegistration(p, input)
    \/ \E p \in Procs : RegSelectAffiliate(p)
    \/ \E p \in Procs : RegSelectProgram(p)
    \/ \E p \in Procs : RegInsert(p)

SpecOnboarding == InitOnboarding /\ [][NextOnboarding]_vars

(* Every operation of the router that writes, and the statistics query,    *)
(* from a database that holds the admin user only.  Requests are made one  *)
(* after the other.                                                        *)

InitUsers == Database({u \in SeedUsers : u.id = 1}, {}, {}, {}, {}, 1)

UsersUserInputs ==
    [email : {"admin@eb.id", "aff@eb.id"}, password_hash : {"hashed_password"},
     full_name : {"Full Name"}, phone : {NoNotes}, role : {"affiliate"}]
UsersAffiliateInputs == [user_id : {2}, commission_rate : {1000}]
UsersStatusInputs ==
    [affiliate_id : {1}, status : {"approved", "suspended"}, approved_by : {1}]
UsersProgramInputs == [price : {100000000}, is_active : {TRUE}]
UsersRegistrationInputs ==
    [affiliate_id : {1}, program_id : {1}, referral_code : Codes,
     student_name : {"Test Student"}]
UsersConfirmInputs ==
    [registration_id : {1}, status : {"confirmed", "cancelled"}, confirmed_by : {2}]
UsersPayoutInputs ==
    [affiliate_id : {1}, amount : {MinPayoutAmount * Cents}, method : {"bank_transfer"},
     bank_details : {"{bank}"}, ewallet_details : {NoNotes}, notes : {NoNotes}]
UsersProcessInputs ==
    [payout_id : {1}, status : {"completed", "failed"}, processed_by : {1},
     notes : {AbsentNotes}]
UsersStatsInputs == [affiliate_id : {1}, start_date : {Absent}, end_date : {Absent}]

NextUsers ==
    \/ \E input \in UsersUserInputs : createUser(input)
    \/ \E p \in Procs, input \in UsersAffiliateInputs : Quiet /\ BeginCreateAffiliate(p, input)
    \/ \E p \in Procs : SelectUser(p)
    \/ \E p \in Procs : SelectAffiliate(p)
    \/ \E p \in Procs : GenerateCode(p)
    \/ \E p \in Procs : Insert(p)
    \/ \E input \in UsersStatusInputs : updateAffiliateStatus(input)
    \/ \E input \in UsersProgramInputs : createProgram(input)
    \/ \E p \in Procs, input \in UsersRegistrationInputs :
         Quiet /\ BeginCreateStudentRegistration(p, input)
    \/ \E p \in Procs : RegSelectAffiliate(p)
    \/ \E p \in Procs : RegSelectProgram(p)
    \/ \E p \in Procs : RegInsert(p)
    \/ \E input \in UsersConfirmInputs : updateRegistrationStatus(input)
    \/ \E p \in Procs, input \in UsersPayoutInputs :
         Quiet /\ appRouter_createCommissionPayout(p, input)
    \/ \E p \in Procs : PayoutSelectAffiliate(p)
    \/ \E p \in Procs : PayoutSumEarnings(p)
    \/ \E p \in Procs : PayoutSumPayouts(p)
    \/ \E p \in Procs : PayoutInsert(p)
    \/ \E p \in Procs, input \in UsersProcessInputs : Quiet /\ BeginUpdatePayoutStatus(p, input)
    \/ \E p \in Procs : PayoutStatusSelect(p)
    \/ \E p \in Procs : PayoutStatusUpdate(p)
    \/ \E p \in Procs, input \in UsersStatsInputs : Quiet /\ BeginGetAffiliateStats(p, input)
    \/ \E p \in Procs : StatsSelectRegistrations(p)
    \/ \E p \in Procs : StatsSelectPayouts(p)

SpecUsers == InitUsers /\ [][NextUsers]_vars

(* The three status updates on a database that holds two affiliates, a     *)
(* program and a confirmed registration: every input whose id matches no   *)
(* record, and for the ids that match one a few inputs that move the       *)
(* records through their statuses                                          *)

UpdatesStatusInputs ==
    [affiliate_id : {MaxAffiliates + 1}, status : affiliateStatusEnum,
     approved_by : {Absent, MaxUsers + 1}]
    \cup [affiliate_id : {2}, status : {"approved", "suspended"}, approved_by : {1}]
UpdatesConfirmInputs ==
    [registration_id : {MaxRegistrations + 1}, status : registrationStatusEnum,
     confirmed_by : {Absent, MaxUsers + 1}]
    \cup [registration_id : {1}, status : {"confirmed", "cancelled"}, confirmed_by : {1}]
UpdatesPayoutInputs == { input \in RequestPayoutInputs : input.affiliate_id = 1 }
UpdatesProcessInputs ==
    [payout_id : {MaxPayouts + 1}, status : payoutStatusEnum,
     processed_by : {Absent, MaxUsers + 1}, notes : {AbsentNotes}]
    \cup [payout_id : {1}, status : {"completed", "failed"}, processed_by : {1},
          notes : {AbsentNotes}]

NextUpdates ==
    \/ \E input \in UpdatesStatusInputs : updateAffiliateStatus(input)
    \/ \E input \in UpdatesConfirmInputs : updateRegistrationStatus(input)
    \/ \E p \in Procs, input \in UpdatesPayoutInputs :
         appRouter_createCommissionPayout(p, input)
    \/ \E p \in Procs : PayoutSelectAffiliate(p)
    \/ \E p \in Procs : PayoutSumEarnings(p)
    \/ \E p \in Procs : PayoutSumPayouts(p)
    \/ \E p \in Procs : PayoutInsert(p)
    \/ \E p \in Procs, input \in UpdatesProcessInputs :
         BeginUpdatePayoutStatus(p, input)
    \/ \E p \in Procs : PayoutStatusSelect(p)
    \/ \E p \in Procs : PayoutStatusUpdate(p)

SpecUpdates == InitPayoutStatus /\ [][NextUpdates]_vars

(* Registrations of two approved affiliates for the one program, confirmed *)
(* and cancelled while the affiliates are suspended and approved again     *)

SnapshotStatusInputs ==
    [affiliate_id : {1, 2}, status : {"approved", "suspended"}, approved_by : {1}]
SnapshotRegistrationInputs ==
    { input \in CreateStudentRegistrationInputs :
        input.program_id = 1 /\ MatchingAffiliates(input) # {} }
SnapshotConfirmInputs ==
    [registration_id : 1..MaxRegistrations, status : registrationStatusEnum,
     confirmed_by : {Absent, 1}]

NextSnapshot ==
    \/ \E input \in SnapshotStatusInputs : updateAffiliateStatus(input)
    \/ \E p \in Procs, input \in SnapshotRegistrationInputs :
         BeginCreateStudentRegistration(p, input)
    \/ \E p \in Procs : RegSelectAffiliate(p)
    \/ \E p \in Procs : RegSelectProgram(p)
    \/ \E p \in Procs : RegInsert(p)
    \/ \E input \in SnapshotConfirmInputs : updateRegistrationStatus(input)

SpecSnapshot == InitPayout /\ [][NextSnapshot]_vars

(* Payouts whose notes are written, cleared and left alone: every form of  *)
(* the notes field an update can carry.  Requests are made one after the   *)
(* other.                                                                  *)

NotesProcessInputs ==
    [payout_id : 1..MaxPayouts, status : payoutStatusEnum,
     processed_by : {1, MaxUsers + 1}, notes : {AbsentNotes, NoNotes} \cup NoteTexts]

NextNotes ==
    \/ \E p \in Procs, input \in UpdatesPayoutInputs :
         Quiet /\ appRouter_createCommissionPayout(p, input)
    \/ \E p \in Procs : PayoutSelectAffiliate(p)
    \/ \E p \in Procs : PayoutSumEarnings(p)
    \/ \E p \in Procs : PayoutSumPayouts(p)
    \/ \E p \in Procs : PayoutInsert(p)
    \/ \E p \in Procs, input \in NotesProcessInputs :
         Quiet /\ BeginUpdatePayoutStatus(p, input)
    \/ \E p \in Procs : PayoutStatusSelect(p)
    \/ \E p \in Procs : PayoutStatusUpdate(p)

SpecNotes == InitPayoutStatus /\ [][NextNotes]_vars

(* Status changes of existing affiliates and registrations: every status   *)
(* of the enum is requested of every record, with an approver that is      *)
(* absent, a user, or no user                                              *)

TransitionStatusInputs ==
    [affiliate_id : {1, 2}, status : affiliateStatusEnum,
     approved_by : {Absent, 1, MaxUsers + 1}]
TransitionConfirmInputs ==
    [registration_id : {1}, status : registrationStatusEnum,
     confirmed_by : {Absent, 1, MaxUsers + 1}]

NextTransitions ==
    \/ \E input \in TransitionStatusInputs : updateAffiliateStatus(input)
    \/ \E input \in TransitionConfirmInputs : updateRegistrationStatus(input)

SpecTransitions == InitPayoutStatus /\ [][NextTransitions]_vars

(* Statistics over a date range: the registrations and payouts of          *)
(* affiliate 1 are created at successive times, and getAffiliateStats is   *)
(* asked for affiliate 1 and for an affiliate that does not exist, with    *)
(* each end of the range absent or at one of two creation times.  Requests *)
(* are made one after the other; updateRegistrationStatus, a single        *)
(* statement, falls between the statements of the request in progress.     *)

RangeDates == {Absent, 7, 8}

RangeRegistrationInputs ==
    [affiliate_id : {1}, program_id : {1}, referral_code : {"EBAAAA"},
     student_name : {"Test Student"}]
RangeConfirmInputs ==
    [registration_id : 1..MaxRegistrations, status : {"confirmed", "pending"},
     confirmed_by : {1}]
RangeProcessInputs ==
    [payout_id : 1..MaxPayouts, status : {"completed", "failed"}, processed_by : {1},
     notes : {AbsentNotes}]
RangeStatsInputs ==
    [affiliate_id : {1, MaxAffiliates + 1}, start_date : RangeDates, end_date : RangeDates]

NextRange ==
    \/ \E p \in Procs, input \in RangeRegistrationInputs :
         Quiet /\ BeginCreateStudentRegistration(p, input)
    \/ \E p \in Procs : RegSelectAffiliate(p)
    \/ \E p \in Procs : RegSelectProgram(p)
    \/ \E p \in Procs : RegInsert(p)
    \/ \E input \in RangeConfirmInputs : updateRegistrationStatus(input)
    \/ \E p \in Procs, input \in UpdatesPayoutInputs :
         Quiet /\ appRouter_createCommissionPayout(p, input)
    \/ \E p \in Procs : PayoutSelectAffiliate(p)
    \/ \E p \in Procs : PayoutSumEarnings(p)
    \/ \E p \in Procs : PayoutSumPayouts(p)
    \/ \E p \in Procs : PayoutInsert(p)
    \/ \E p \in Procs, input \in RangeProcessInputs :
         Quiet /\ BeginUpdatePayoutStatus(p, input)
    \/ \E p \in Procs : PayoutStatusSelect(p)
    \/ \E p \in Procs : PayoutStatusUpdate(p)
    \/ \E p \in Procs, input \in RangeStatsInputs : Quiet /\ BeginGetAffiliateStats(p, input)
    \/ \E p \in Procs : StatsSelectRegistrations(p)
    \/ \E p \in Procs : StatsSelectPayouts(p)

SpecRange == InitPayoutStatus /\ [][NextRange]_vars

(* Listings of two affiliates and two payouts; the second of each was      *)
(* inserted either at the same time as the first or later                  *)

ListingPayoutInput ==
    [affiliate_id |-> 1, amount |-> MinPayoutAmount * Cents, method |-> "bank_transfer",
     bank_details |-> "{bank}", ewallet_details |-> NoNotes, notes |-> NoNotes]

InitListing ==
    \E affiliateAt \in {3, 4}, payoutAt \in {7, 8} :
       Database(SeedUsers,
                { SeedAffiliate(1, 1000, "EBAAAA", "approved", 3),
                  SeedAffiliate(2, 555, "EBBBBB", "approved", affiliateAt) },
                SeedPrograms, SeedRegistrations,
                { PayoutRow(1, ListingPayoutInput, 7),
                  PayoutRow(2, ListingPayoutInput, payoutAt) },
                8)

ListingStatusInputs ==
    [affiliate_id : {1, 2}, status : {"approved", "suspended"}, approved_by : {1}]
ListingProcessInputs ==
    [payout_id : 1..MaxPayouts, status : {"pending", "completed"}, processed_by : {1},
     notes : {AbsentNotes}]

NextListing ==
    \/ \E input \in GetAffiliatesInputs : getAffiliates(input)
    \/ \E input \in RouterCommissionPayoutsInputs : getCommissionPayouts(input)
    \/ \E input \in ListingStatusInputs : updateAffiliateStatus(input)
    \/ \E p \in Procs, input \in ListingProcessInputs :
         Quiet /\ BeginUpdatePayoutStatus(p, input)
    \/ \E p \in Procs : PayoutStatusSelect(p)
    \/ \E p \in Procs : PayoutStatusUpdate(p)

SpecListing == InitListing /\ [][NextListing]_vars

(* Registrations and payout requests for affiliate 1 while its status is   *)
(* changed: two requests at a time, their statements interleaved with each *)
(* other and with updateAffiliateStatus                                    *)

RacingStatusInputs ==
    [affiliate_id : {1}, status : {"approved", "suspended"}, approved_by : {1}]

NextRacing ==
    \/ \E input \in RacingStatusInputs : updateAffiliateStatus(input)
    \/ \E p \in Procs, input \in RangeRegistrationInputs :
         BeginCreateStudentRegistration(p, input)
    \/ \E p \in Procs : RegSelectAffiliate(p)
    \/ \E p \in Procs : RegSelectProgram(p)
    \/ \E p \in Procs : RegInsert(p)
    \/ \E p \in Procs, input \in UpdatesPayoutInputs :
         appRouter_createCommissionPayout(p, input)
    \/ \E p \in Procs : PayoutSelectAffiliate(p)
    \/ \E p \in Procs : PayoutSumEarnings(p)
    \/ \E p \in Procs : PayoutSumPayouts(p)
    \/ \E p \in Procs : PayoutInsert(p)

SpecRacing == InitPayoutStatus /\ [][NextRacing]_vars

(* Every write that stores a reference, asked for with ids that name a row *)
(* and with ids that name none: user 1 has an approved affiliate with a    *)
(* confirmed registration, user 2 has no profile yet.  Requests are made   *)
(* one after the other.                                                    *)

InitIntegrity ==
    Database(SeedUsers, { SeedAffiliate(1, 1000, "EBAAAA", "approved", 3) },
             SeedPrograms, SeedRegistrations, {}, 6)

IntegrityAffiliateInputs == [user_id : {2, MaxUsers + 1}, commission_rate : {1000}]
IntegrityStatusInputs ==
    [affiliate_id : {1, 2}, status : {"approved"}, approved_by : {1, MaxUsers + 1}]
IntegrityRegistrationInputs ==
    [affiliate_id : {1, MaxAffiliates + 1}, program_id : {1, MaxPrograms + 1},
     referral_code : {"EBAAAA"}, student_name : {"Test Student"}]
IntegrityConfirmInputs ==
    [registration_id : {1}, status : {"confirmed", "pending"},
     confirmed_by : {1, MaxUsers + 1}]
IntegrityPayoutInputs ==
    [affiliate_id : {1, MaxAffiliates + 1}, amount : {MinPayoutAmount * Cents},
     method : {"bank_transfer"}, bank_details : {"{bank}"}, ewallet_details : {NoNotes},
     notes : {NoNotes}]
IntegrityProcessInputs ==
    [payout_id : {1}, status : {"completed", "pending"}, processed_by : {1, MaxUsers + 1},
     notes : {AbsentNotes}]

NextIntegrity ==
    \/ \E p \in Procs, input \in IntegrityAffiliateInputs :
         Quiet /\ BeginCreateAffiliate(p, input)
    \/ \E p \in Procs : SelectUser(p)
    \/ \E p \in Procs : SelectAffiliate(p)
    \/ \E p \in Procs : GenerateCode(p)
    \/ \E p \in Procs : Insert(p)
    \/ \E input \in IntegrityStatusInputs : updateAffiliateStatus(input)
    \/ \E p \in Procs, input \in IntegrityRegistrationInputs :
         Quiet /\ BeginCreateStudentRegistration(p, input)
    \/ \E p \in Procs : RegSelectAffiliate(p)
    \/ \E p \in Procs : RegSelectProgram(p)
    \/ \E p \in Procs : RegInsert(p)
    \/ \E input \in IntegrityConfirmInputs : updateRegistrationStatus(input)
    \/ \E p \in Procs, input \in IntegrityPayoutInputs :
         Quiet /\ appRouter_createCommissionPayout(p, input)
    \/ \E p \in Procs : PayoutSelectAffiliate(p)
    \/ \E p \in Procs : PayoutSumEarnings(p)
    \/ \E p \in Procs : PayoutSumPayouts(p)
    \/ \E p \in Procs : PayoutInsert(p)
    \/ \E p \in Procs, input \in IntegrityProcessInputs :
         Quiet /\ BeginUpdatePayoutStatus(p, input)
    \/ \E p \in Procs : PayoutStatusSelect(p)
    \/ \E p \in Procs : PayoutStatusUpdate(p)

SpecIntegrity == InitIntegrity /\ [][NextIntegrity]_vars

(* Sign-ups through the form, one at a time, beside an administrator who   *)
(* creates an affiliate profile of their own                               *)

SignupAffiliateInputs == [user_id : {1}, commission_rate : {1000}]
SignupStatusInputs ==
    [affiliate_id : 1..MaxAffiliates, status : {"approved", "suspended"}, approved_by : {1}]

NextSignup ==
    \/ \E p \in Procs, formData \in FormInputs : Quiet /\ BeginHandleSubmit(p, formData)
    \/ \E p \in Procs : SubmitCreateUser(p)
    \/ \E p \in Procs, input \in SignupAffiliateInputs :
         Quiet /\ BeginCreateAffiliate(p, input)
    \/ \E p \in Procs : SelectUser(p)
    \/ \E p \in Procs : SelectAffiliate(p)
    \/ \E p \in Procs : GenerateCode(p)
    \/ \E p \in Procs : Insert(p)
    \/ \E input \in SignupStatusInputs : updateAffiliateStatus(input)

SpecSignup == InitUsers /\ [][NextSignup]_vars

(* A system with one affiliate more than a page of getAffiliates holds:    *)
(* user i signed up at time i and has affiliate i, created at              *)
(* ManyAffiliates + i                                                      *)

ManyAffiliates == DefaultLimit + 1

InitDashboard ==
    Database({ UserRow(i, [email |-> "user" \o ToString(i) \o "@eb.id",
                           password_hash |-> "hashed_password", full_name |-> "Full Name",
                           phone |-> NoNotes, role |-> "affiliate"], i) :
               i \in 1..ManyAffiliates },
             { SeedAffiliate(i, DefaultCommissionRate, "EB" \o ToString(i), "approved",
                             ManyAffiliates + i) : i \in 1..ManyAffiliates },
             {}, {}, {}, 2 * ManyAffiliates)

DashboardUsers == {1, 2, ManyAffiliates}

DashboardStatusInputs ==
    [affiliate_id : DashboardUsers, status : affiliateStatusEnum, approved_by : {1}]

NextDashboard ==
    \/ \E p \in Procs, user \in DashboardUsers :
         Quiet /\ BeginLoadAffiliateData(p, user)
    \/ \E p \in Procs : LoadGetAffiliates(p)
    \/ \E p \in Procs : StatsSelectRegistrations(p)
    \/ \E p \in Procs : StatsSelectPayouts(p)
    \/ \E input \in DashboardStatusInputs : updateAffiliateStatus(input)

SpecDashboard == InitDashboard /\ [][NextDashboard]_vars

----------------------------------------------------------------------------
(* The quantities the claims speak of, in hundredths *)

RegsOf(aid, statuses) ==
    {reg \in registrations : reg.affiliate_id = aid /\ reg.status \in statuses}
PayoutsOf(aid, statuses) ==
    {payout \in payouts : payout.affiliate_id = aid /\ payout.status \in statuses}

Earned(aid) == Sum(RegsOf(aid, {"confirmed"}), "commission_amount")
Paid(aid, statuses) == Sum(PayoutsOf(aid, statuses), "amount")

(* confirmed earnings - completed payouts - pending and processing payouts *)
Available(aid) ==
    Earned(aid) - Paid(aid, {"completed"}) - Paid(aid, {"pending", "processing"})

Threshold == MinAvailable * Cents
Approved(aid) == Has(affiliates, aid) /\ Row(affiliates, aid).status = "approved"

(* the step is a call of the handler op, which awaits one statement *)
Called(op) == calls' = calls /\ last'.op = op

(* slot p runs a call of createAffiliate *)
InCreateAffiliate(p) ==
    calls[p].pc \in {"selectUser", "selectAffiliate", "generateCode", "insert"}

----------------------------------------------------------------------------
(* C3: after any sequence of createAffiliate and updateAffiliateStatus     *)
(* calls, an affiliate that is not approved has approved_by and            *)
(* approved_at null and an approved one has approved_at set; an approving  *)
(* call stores the approved_by it was passed, or null when it was passed   *)
(* none.                                                                   *)
(* The handler passes an undefined approved_by to set(), which skips it:   *)
(* approving an affiliate that is already approved, without approved_by,   *)
(* keeps the earlier approver next to the new approved_at.                 *)
C3_ApprovalFields ==
    /\ [](\A a \in affiliates :
            IF a.status = "approved"
            THEN a.approved_at # Null
            ELSE a.approved_by = Null /\ a.approved_at = Null)
    /\ [][(/\ Called("updateAffiliateStatus")
            /\ last'.outcome = Ok
            /\ last'.input.status = "approved")
           => Row(affiliates', last'.input.affiliate_id).approved_by =
                IF last'.input.approved_by = Absent THEN Null
                ELSE last'.input.approved_by]_vars

----------------------------------------------------------------------------
(* C7: in every reachable state, interleaved createAffiliate calls         *)
(* included, at most one affiliate exists per user_id; a createAffiliate   *)
(* call for a user that already has a profile when it is made never gets   *)
(* to generate a code or insert: it ends with 'User already has an         *)
(* affiliate profile' and no row.                                          *)
C7_OneProfilePerUser ==
    /\ \A a, b \in affiliates : a.user_id = b.user_id => a = b
    /\ \A p \in Procs :
         (InCreateAffiliate(p) /\ calls[p].hadProfile)
         => calls[p].pc \in {"selectUser", "selectAffiliate"}
    /\ (last.op = "createAffiliate" /\ last.hadProfile)
       => last.outcome = ErrHasProfile /\ last.row = Null

(* C7 witness: a call lost the race for its user to a concurrent call and  *)
(* was stopped by the unique index, while a later call for that user is    *)
(* about to be refused by the handler's own check                          *)
C7_Witness ==
    /\ last.op = "createAffiliate"
    /\ ~last.hadProfile
    /\ last.outcome = ErrConstraint
    /\ HasProfile(last.input.user_id)
    /\ \E q \in Procs :
         /\ calls[q].pc = "selectAffiliate"
         /\ calls[q].hadProfile
         /\ calls[q].input.user_id = last.input.user_id

(* C8: in every reachable state, interleaved createAffiliate calls         *)
(* included, no two affiliates have the same referral_code, and no step    *)
(* removes an affiliate or changes the referral_code of one.               *)
C8_ReferralCodeUnique ==
    /\ [](\A a, b \in affiliates : a.referral_code = b.referral_code => a = b)
    /\ [][\A a \in affiliates :
            \E b \in affiliates' : b.id = a.id /\ b.referral_code = a.referral_code]_vars

(* C8 witness: a call for a user without a profile drew a code that a      *)
(* concurrent call inserted first and was stopped by the unique index; an  *)
(* affiliate has been approved and kept its code                           *)
C8_Witness ==
    /\ last.op = "createAffiliate"
    /\ last.outcome = ErrConstraint
    /\ ~HasProfile(last.input.user_id)
    /\ \E a \in affiliates : a.status = "approved"

----------------------------------------------------------------------------
(* C19: createAffiliate fails with 'User not found' and adds no affiliate  *)
(* when its select finds no user with input.user_id; a call that fails     *)
(* adds none; when it succeeds it adds one affiliate with status           *)
(* 'pending', approved_by = null and approved_at = null and changes no     *)
(* other; a step in which an affiliate becomes 'approved' is an            *)
(* updateAffiliateStatus call on an affiliate that existed before.         *)
C19_CreatedPending ==
    [][/\ \A p \in Procs :
            /\ (calls[p].pc = "selectUser" /\ calls'[p] # calls[p]
                /\ ~UserExists(calls[p].input.user_id))
               => /\ calls'[p] = Idle
                  /\ last'.outcome = ErrUserNotFound
                  /\ affiliates' = affiliates
            /\ (InCreateAffiliate(p) /\ calls'[p] # calls[p] /\ calls[p].pc # "insert")
               => affiliates' = affiliates
            /\ (calls[p].pc = "insert" /\ calls'[p] # calls[p])
               => /\ calls'[p] = Idle
                  /\ last'.outcome # Ok => affiliates' = affiliates
                  /\ last'.outcome = Ok
                     => /\ ~Has(affiliates, last'.row)
                        /\ affiliates' = affiliates \cup {Row(affiliates', last'.row)}
                        /\ Row(affiliates', last'.row).user_id = calls[p].input.user_id
                        /\ Row(affiliates', last'.row).status = "pending"
                        /\ Row(affiliates', last'.row).approved_by = Null
                        /\ Row(affiliates', last'.row).approved_at = Null
       /\ \A b \in affiliates' :
            (b.status = "approved"
             /\ ~(\E a \in affiliates : a.id = b.id /\ a.status = "approved"))
            => /\ Has(affiliates, b.id)
               /\ last'.op = "updateAffiliateStatus"
               /\ last'.row = b.id]_vars

(* C19 witness: createAffiliate has just added an affiliate, pending and   *)
(* without approver, beside another that has been approved since its       *)
(* creation                                                                *)
C19_Witness ==
    /\ last.op = "createAffiliate"
    /\ last.outcome = Ok
    /\ Row(affiliates, last.row).status = "pending"
    /\ Row(affiliates, last.row).approved_by = Null
    /\ Row(affiliates, last.row).approved_at = Null
    /\ \E a \in affiliates : a.status = "approved" /\ a.approved_by # Null

----------------------------------------------------------------------------
(* C20: the referral-code loop of createAffiliate draws at most 10         *)
(* candidates.  Each pass draws one candidate and changes no table; the    *)
(* loop is left for the insert with the first candidate no affiliate uses, *)
(* it goes round again on a collision before the 10th candidate, and on a  *)
(* collision of the 10th candidate the call ends with 'Unable to generate  *)
(* unique referral code' without an insert.  The insert adds the affiliate *)
(* with the candidate the loop ended on whenever the unique indexes still  *)
(* admit it.                                                               *)
InUse(code) == \E a \in affiliates : a.referral_code = code

C20_CodeLoop ==
    [][\A p \in Procs :
         /\ (calls[p].pc = "generateCode" /\ calls'[p] # calls[p])
            => /\ affiliates' = affiliates
               /\ calls[p].attempts < maxAttempts
               /\ calls'[p].pc \in {"insert", "generateCode", "idle"}
               /\ calls'[p].pc = "insert"
                  => /\ ~InUse(calls'[p].referralCode)
                     /\ calls'[p].attempts = calls[p].attempts + 1
               /\ calls'[p].pc = "generateCode"
                  => /\ InUse(calls'[p].referralCode)
                     /\ calls'[p].attempts = calls[p].attempts + 1
                     /\ calls'[p].attempts < maxAttempts
               /\ calls'[p].pc = "idle"
                  => /\ calls[p].attempts = maxAttempts - 1
                     /\ last'.outcome = ErrNoUniqueCode
                     /\ last'.row = Null
         /\ (calls[p].pc = "insert" /\ calls'[p] # calls[p])
            => /\ calls[p].attempts \in 1..maxAttempts
               /\ calls'[p].pc = "idle"
               /\ InsertAffiliateOk(calls[p].input, calls[p].referralCode)
                  => /\ last'.outcome = Ok
                     /\ Row(affiliates', last'.row).referral_code = calls[p].referralCode
                     /\ Row(affiliates', last'.row).user_id = calls[p].input.user_id
                     /\ affiliates' = affiliates \cup {Row(affiliates', last'.row)}
               /\ ~InsertAffiliateOk(calls[p].input, calls[p].referralCode)
                  => last'.outcome = ErrConstraint /\ affiliates' = affiliates]_vars

(* C20 witness: one call gave up after its 10th candidate collided, while  *)
(* another found a free code with its 10th candidate and is about to       *)
(* insert it                                                               *)
C20_Witness ==
    /\ last.op = "createAffiliate"
    /\ last.outcome = ErrNoUniqueCode
    /\ \E q \in Procs :
         /\ calls[q].pc = "insert"
         /\ calls[q].attempts = maxAttempts
         /\ ~InUse(calls[q].referralCode)
    /\ Cardinality(affiliates) = 1

----------------------------------------------------------------------------
(* C4 as stated: a registration that is not confirmed has confirmed_by and *)
(* confirmed_at null, a confirmed one has confirmed_at set, and a          *)
(* confirming call stores the confirmed_by it was passed, or null when it  *)
(* was passed none.  A confirming call that passes 0 stores null.          *)
C4_AsStated ==
    /\ [](\A reg \in registrations :
            IF reg.status = "confirmed"
            THEN reg.confirmed_at # Null
            ELSE reg.confirmed_by = Null /\ reg.confirmed_at = Null)
    /\ [][(/\ Called("updateRegistrationStatus")
            /\ last'.outcome = Ok
            /\ last'.input.status = "confirmed")
           => Row(registrations', last'.input.registration_id).confirmed_by =
                IF last'.input.confirmed_by = Absent THEN Null
                ELSE last'.input.confirmed_by]_vars

(* C4: a registration that is not confirmed has confirmed_by and           *)
(* confirmed_at null, a confirmed one has confirmed_at set, and a          *)
(* confirming call stores the confirmed_by it was passed, or null when it  *)
(* was passed none or 0.                                                   *)
C4_ConfirmationFields ==
    /\ [](\A reg \in registrations :
            IF reg.status = "confirmed"
            THEN reg.confirmed_at # Null
            ELSE reg.confirmed_by = Null /\ reg.confirmed_at = Null)
    /\ [][(/\ Called("updateRegistrationStatus")
            /\ last'.outcome = Ok
            /\ last'.input.status = "confirmed")
           => Row(registrations', last'.input.registration_id).confirmed_by =
                IF last'.input.confirmed_by \in {Absent, 0} THEN Null
                ELSE last'.input.confirmed_by]_vars

(* C4 witness: one registration confirmed by a user, the other back to a   *)
(* status other than confirmed after the last update, its fields null      *)
C4_Witness ==
    /\ last.op = "updateRegistrationStatus"
    /\ last.outcome = Ok
    /\ Row(registrations, last.row).status = "cancelled"
    /\ Row(registrations, last.row).confirmed_at = Null
    /\ \E reg \in registrations :
         /\ reg.status = "confirmed"
         /\ reg.confirmed_by = 2
         /\ reg.confirmed_at # Null

----------------------------------------------------------------------------
(* commission * RateScale - price * rate: how far a stored commission is   *)
(* from the exact product, in units of 1/RateScale of a hundredth.  The    *)
(* price is split so that no intermediate value leaves 32 bits.            *)
Deviation(commission, price, rate) ==
    (commission - (price \div RateScale) * rate) * RateScale - (price % RateScale) * rate

Abs(x) == IF x < 0 THEN 0 - x ELSE x

(* the row a successful insert step stored *)
Stored(table) == Row(table, last'.row)

(* C5 as stated: a successful createStudentRegistration stores a pending   *)
(* registration with confirmed_by and confirmed_at null, registration_fee  *)
(* = the program's price and commission_amount = price * commission_rate.  *)
(* The product has up to six decimals and the column keeps two.            *)
C5_AsStated ==
    [][\A p \in Procs :
         (calls[p].pc = "regInsert" /\ calls'[p] # calls[p] /\ last'.outcome = Ok)
         => LET input == calls[p].input
            IN  /\ registrations' = registrations \cup {Stored(registrations')}
                /\ ~Has(registrations, last'.row)
                /\ Stored(registrations').status = "pending"
                /\ Stored(registrations').confirmed_by = Null
                /\ Stored(registrations').confirmed_at = Null
                /\ Stored(registrations').registration_fee
                     = Row(programs, input.program_id).price
                /\ Deviation(Stored(registrations').commission_amount,
                             Row(programs, input.program_id).price,
                             Row(affiliates, input.affiliate_id).commission_rate) = 0]_vars

(* C5: a successful createStudentRegistration stores a pending             *)
(* registration with confirmed_by and confirmed_at null, registration_fee  *)
(* = the program's price and commission_amount = price * commission_rate   *)
(* rounded to hundredths, at most half a hundredth from the product.       *)
C5_Snapshot ==
    [][\A p \in Procs :
         (calls[p].pc = "regInsert" /\ calls'[p] # calls[p] /\ last'.outcome = Ok)
         => LET input == calls[p].input
            IN  /\ registrations' = registrations \cup {Stored(registrations')}
                /\ ~Has(registrations, last'.row)
                /\ Stored(registrations').status = "pending"
                /\ Stored(registrations').confirmed_by = Null
                /\ Stored(registrations').confirmed_at = Null
                /\ Stored(registrations').registration_fee
                     = Row(programs, input.program_id).price
                /\ 2 * Abs(Deviation(Stored(registrations').commission_amount,
                                     Row(programs, input.program_id).price,
                                     Row(affiliates, input.affiliate_id).commission_rate))
                     <= RateScale]_vars

(* C5 witness: a registration just stored whose commission is not the      *)
(* exact product of the price and the rate                                 *)
C5_Witness ==
    /\ last.op = "createStudentRegistration"
    /\ last.outcome = Ok
    /\ LET reg == Row(registrations, last.row)
       IN  /\ reg.status = "pending"
           /\ reg.registration_fee = Row(programs, reg.program_id).price
           /\ Deviation(reg.commission_amount, Row(programs, reg.program_id).price,
                        Row(affiliates, reg.affiliate_id).commission_rate) # 0

----------------------------------------------------------------------------
(* C6: createStudentRegistration fails and adds no registration unless the *)
(* affiliate with the given id carries the given referral code, is         *)
(* approved, and the program exists and is active.  The checks are made in *)
(* this order, each on the rows its select finds: the affiliate's select   *)
(* ends the call with the first or second error, the program's select      *)
(* with the third or fourth, and only a call that passed all four inserts. *)
C6_CheckOrder ==
    [][\A p \in Procs :
         LET input == calls[p].input
             matching == \E a \in affiliates : /\ a.id = input.affiliate_id
                                               /\ a.referral_code = input.referral_code
         IN  /\ (calls[p].pc = "regSelectAffiliate" /\ calls'[p] # calls[p])
                => /\ registrations' = registrations
                   /\ IF ~matching
                      THEN calls'[p] = Idle /\ last'.outcome = ErrInvalidAffiliate
                      ELSE IF ~Approved(input.affiliate_id)
                      THEN calls'[p] = Idle /\ last'.outcome = ErrNotApprovedReg
                      ELSE calls'[p].pc = "regSelectProgram"
             /\ (calls[p].pc = "regSelectProgram" /\ calls'[p] # calls[p])
                => /\ registrations' = registrations
                   /\ IF ~(\E program \in programs : program.id = input.program_id)
                      THEN calls'[p] = Idle /\ last'.outcome = ErrProgramNotFound
                      ELSE IF ~Row(programs, input.program_id).is_active
                      THEN calls'[p] = Idle /\ last'.outcome = ErrProgramInactive
                      ELSE calls'[p].pc = "regInsert"
             /\ (calls[p].pc = "regInsert" /\ calls'[p] # calls[p])
                => /\ last'.outcome = Ok
                   /\ Cardinality(registrations') = Cardinality(registrations) + 1]_vars

(* C6 witness: a call rejected because the affiliate is not approved while *)
(* no program exists, so the program check would have failed as well       *)
C6_Witness ==
    /\ last.op = "createStudentRegistration"
    /\ last.outcome = ErrNotApprovedReg
    /\ programs = {}
    /\ registrations = {}

----------------------------------------------------------------------------
(* C22: in every reachable state, every registration names an existing     *)
(* affiliate and its referral_code equals the referral_code of that        *)
(* affiliate.                                                              *)
C22_CodeMatchesAffiliate ==
    \A reg \in registrations :
       /\ Has(affiliates, reg.affiliate_id)
       /\ reg.referral_code = Row(affiliates, reg.affiliate_id).referral_code

(* C22 witness: two registrations of the approved affiliate carry its code *)
(* after a call that named the affiliate with another affiliate's code was *)
(* refused                                                                 *)
C22_Witness ==
    /\ last.op = "createStudentRegistration"
    /\ last.outcome = ErrInvalidAffiliate
    /\ Has(affiliates, last.input.affiliate_id)
    /\ Cardinality(registrations) = 2
    /\ \A reg \in registrations : reg.referral_code = "EBAAAA"

----------------------------------------------------------------------------
(* slot p takes the step that leaves pc *)
Steps(p, pc) == calls[p].pc = pc /\ calls'[p] # calls[p]

(* C1: createCommissionPayout rejects, with 'Insufficient commission       *)
(* balance' and without creating a payout, every request of an approved    *)
(* affiliate whose amount exceeds confirmed earnings - completed payouts - *)
(* pending and processing payouts, the earnings being those the handler    *)
(* read.                                                                   *)
(* The handler subtracts the completed payouts only, so the request is     *)
(* accepted while earlier requests are pending or processing.              *)
C1_RejectsOverAvailable ==
    [][\A p \in Procs :
         (/\ Steps(p, "payoutSumPayouts")
          /\ calls[p].totalEarnings = Earned(calls[p].input.affiliate_id)
          /\ calls[p].input.amount > Available(calls[p].input.affiliate_id))
         => (/\ calls'[p] = Idle
             /\ last'.outcome = ErrInsufficient
             /\ payouts' = payouts)]_vars

(* C2: getAffiliateStats without a date range returns available_for_payout *)
(* = A when A >= 100000 and 0 otherwise, A = confirmed earnings -          *)
(* completed payouts - pending and processing payouts (failed payouts in   *)
(* neither sum); the figure is never negative and never strictly between 0 *)
(* and 100000.  The figure is compared to the cent, for a call during      *)
(* which the registrations did not change.                                 *)
(* The handler computes A in double precision: with earnings 300000.30, a  *)
(* completed payout of 100000.10 and a pending one of 100000.20 it finds   *)
(* 99999.99999999999, below the threshold, and returns 0 where A is        *)
(* 100000.                                                                 *)
C2_AvailableForPayout ==
    [][\A p \in Procs :
         (/\ Steps(p, "statsSelectPayouts")
          /\ calls[p].op = "getAffiliateStats"
          /\ calls[p].registrations =
               RegsOf(calls[p].input.affiliate_id, registrationStatusEnum))
         => LET A == Available(calls[p].input.affiliate_id)
                got == last'.stats.available_for_payout
            IN  /\ ~got.neg
                /\ toNumeric(got, Cents) = IF A >= Threshold THEN A ELSE 0
                /\ got = FZero \/ FGe(got, parseFloat(MinAvailable, 1))]_vars

----------------------------------------------------------------------------
(* commission_amount of a registration if its status is confirmed, else 0 *)
Counted(reg) == IF reg.status = "confirmed" THEN reg.commission_amount ELSE 0

(* C13: a registration's commission_amount counts toward its affiliate's   *)
(* earnings exactly while its status is confirmed.  A status update        *)
(* changes the sum over the confirmed registrations by the difference      *)
(* between what the registration counted for before and after (plus its    *)
(* commission when it becomes confirmed, minus when it stops being         *)
(* confirmed, nothing otherwise) and the sum of the other affiliate by     *)
(* nothing; the earnings createCommissionPayout reads are that sum at the  *)
(* time of its query, pending and cancelled registrations adding nothing;  *)
(* and total_commission_earned of getAffiliateStats is, to the cent, the   *)
(* sum over the confirmed registrations among those it read.               *)
C13_EarningsWhileConfirmed ==
    /\ [][(Called("updateRegistrationStatus") /\ last'.outcome = Ok)
          => LET reg == Row(registrations, last'.input.registration_id)
             IN  \A aid \in Ids(affiliates) :
                   Earned(aid)' =
                     IF reg.affiliate_id = aid
                     THEN Earned(aid) - Counted(reg)
                            + (IF last'.input.status = "confirmed"
                               THEN reg.commission_amount ELSE 0)
                     ELSE Earned(aid)]_vars
    /\ [][\A p \in Procs :
            Steps(p, "payoutSumEarnings")
            => /\ calls'[p].totalEarnings = Earned(calls[p].input.affiliate_id)
               /\ RegsOf(calls[p].input.affiliate_id, {"confirmed"}) = {}
                  => calls'[p].totalEarnings = 0]_vars
    /\ [][\A p \in Procs :
            (Steps(p, "statsSelectPayouts") /\ calls[p].op = "getAffiliateStats")
            => toNumeric(last'.stats.total_commission_earned, Cents) =
                 Sum({reg \in calls[p].registrations : reg.status = "confirmed"},
                     "commission_amount")]_vars

(* C13 witness: a registration was confirmed, a payout against it was      *)
(* completed, and the registration has just been cancelled: the earnings   *)
(* are back to zero, below what was paid                                   *)
C13_Witness ==
    /\ last.op = "updateRegistrationStatus"
    /\ last.outcome = Ok
    /\ Row(registrations, last.row).status = "cancelled"
    /\ Row(registrations, last.row).affiliate_id = 1
    /\ Earned(1) = 0
    /\ Paid(1, {"completed"}) > 0

----------------------------------------------------------------------------
(* C25: for every affiliate, in every state reachable through              *)
(* createStudentRegistration, updateRegistrationStatus,                    *)
(* createCommissionPayout and updatePayoutStatus, the sum of amount over   *)
(* the affiliate's completed payouts does not exceed the sum of            *)
(* commission_amount over its confirmed registrations.                     *)
(* A payout requested while the registration was confirmed can be         *)
(* completed after the registration has been cancelled, and two requests   *)
(* made while the first is still pending are both accepted and can both be *)
(* completed.                                                              *)
C25_NeverOverpaid ==
    \A aid \in Ids(affiliates) : Paid(aid, {"completed"}) <= Earned(aid)

----------------------------------------------------------------------------
(* C9: a successful updatePayoutStatus with status 'completed' or 'failed' *)
(* leaves the payout with processed_by = the input's processed_by (null    *)
(* when the input carries none) and processed_at set; with status          *)
(* 'processing' on a payout that was never completed or failed, whose      *)
(* processed_by and processed_at are therefore null, it leaves both null.  *)
(* The handler passes an undefined processed_by to set(), which skips it:  *)
(* a payout completed by a user and then marked failed without             *)
(* processed_by keeps that user next to the new processed_at.              *)
C9_ProcessedFields ==
    [][\A p \in Procs :
         (Steps(p, "payoutStatusUpdate") /\ last'.outcome = Ok)
         => LET input == calls[p].input
                before == Row(payouts, input.payout_id)
                after == Row(payouts', input.payout_id)
            IN  /\ input.status \in {"completed", "failed"}
                   => /\ after.processed_by =
                           IF input.processed_by = Absent THEN Null ELSE input.processed_by
                      /\ after.processed_at # Null
                /\ (/\ input.status = "processing"
                    /\ before.processed_by = Null
                    /\ before.processed_at = Null)
                   => /\ after.processed_by = Null
                      /\ after.processed_at = Null]_vars

----------------------------------------------------------------------------
(* C10 as stated: once a payout is completed or failed no step moves it to *)
(* pending or processing, and no step moves a processing payout to         *)
(* pending.                                                                *)
C10_AsStated ==
    [][\A payout \in payouts :
         /\ payout.status \in {"completed", "failed"}
            => Row(payouts', payout.id).status \notin {"pending", "processing"}
         /\ payout.status = "processing"
            => Row(payouts', payout.id).status # "pending"]_vars

(* C10: updatePayoutStatus applies no transition guard.  The UPDATE of a   *)
(* call that names an existing payout, and no processed_by that is not a   *)
(* user when the requested status is completed or failed, succeeds and     *)
(* stores the requested status whatever the status was before; no other    *)
(* step changes the status of an existing payout, and a new payout starts  *)
(* pending.                                                                *)
C10_NoTransitionGuard ==
    /\ [][\A p \in Procs :
            (/\ Steps(p, "payoutStatusUpdate")
             /\ Has(payouts, calls[p].input.payout_id)
             /\ ~(/\ calls[p].input.status \in {"completed", "failed"}
                  /\ calls[p].input.processed_by # Absent
                  /\ ~UserExists(calls[p].input.processed_by)))
            => /\ last'.outcome = Ok
               /\ Row(payouts', calls[p].input.payout_id).status = calls[p].input.status
               /\ \A payout \in payouts :
                    payout.id # calls[p].input.payout_id => payout \in payouts']_vars
    /\ [][(\A p \in Procs : ~Steps(p, "payoutStatusUpdate"))
            => /\ \A payout \in payouts : Row(payouts', payout.id).status = payout.status
               /\ \A payout \in payouts' \ payouts : payout.status = "pending"]_vars

(* C10 witness: the last update moved a payout that had been completed or  *)
(* failed, as its processed_at shows, back to pending                      *)
C10_Witness ==
    /\ last.op = "updatePayoutStatus"
    /\ last.outcome = Ok
    /\ Row(payouts, last.row).status = "pending"
    /\ Row(payouts, last.row).processed_at # Null

----------------------------------------------------------------------------
(* slot p runs a call of createCommissionPayout *)
InCreateCommissionPayout(p) ==
    calls[p].pc \in {"payoutSelectAffiliate", "payoutSumEarnings", "payoutSumPayouts",
                     "payoutInsert"}

(* C12: createCommissionPayout fails and creates no payout when no         *)
(* affiliate has the given id ('Affiliate with ID <id> not found') or when *)
(* that affiliate is not approved ('Only approved affiliates can request   *)
(* payouts'); when it succeeds it has added exactly one payout, pending,   *)
(* with processed_by and processed_at null, and none of its statements     *)
(* changes an affiliate, a registration or an earlier payout.              *)
C12_PayoutCreation ==
    /\ [][\A p \in Procs :
            Steps(p, "payoutSelectAffiliate")
            => LET aid == calls[p].input.affiliate_id
               IN  /\ ~Has(affiliates, aid)
                      => /\ calls'[p] = Idle
                         /\ last' = Fail("createCommissionPayout", calls[p].input,
                                         ErrPayoutAffiliateNotFound)
                   /\ (Has(affiliates, aid) /\ ~Approved(aid))
                      => /\ calls'[p] = Idle
                         /\ last' = Fail("createCommissionPayout", calls[p].input,
                                         ErrNotApprovedPayout)]_vars
    /\ [][\A p \in Procs :
            (InCreateCommissionPayout(p) /\ calls'[p] # calls[p])
            => /\ affiliates' = affiliates
               /\ registrations' = registrations
               /\ payouts \subseteq payouts'
               /\ IF calls'[p] = Idle /\ last'.outcome = Ok
                  THEN /\ calls[p].pc = "payoutInsert"
                       /\ Cardinality(payouts') = Cardinality(payouts) + 1
                       /\ ~Has(payouts, last'.row)
                       /\ LET payout == Row(payouts', last'.row)
                          IN  /\ payout.status = "pending"
                              /\ payout.processed_by = Null
                              /\ payout.processed_at = Null
                              /\ payout.affiliate_id = calls[p].input.affiliate_id
                              /\ payout.amount = calls[p].input.amount
                  ELSE payouts' = payouts]_vars

(* C12 witness: a second payout has just been created, pending and         *)
(* unprocessed, beside an earlier one that has failed                      *)
C12_Witness ==
    /\ last.op = "createCommissionPayout"
    /\ last.outcome = Ok
    /\ last.row = 2
    /\ Has(payouts, 2) /\ Has(payouts, 1)
    /\ Row(payouts, 2).status = "pending"
    /\ Row(payouts, 2).processed_by = Null
    /\ Row(payouts, 1).status = "failed"
    /\ Row(payouts, 1).processed_by = 1

----------------------------------------------------------------------------
(* C27: after any sequence of createCommissionPayout and                   *)
(* updatePayoutStatus calls, every payout that is pending or processing    *)
(* has processed_by and processed_at null.                                 *)
(* updatePayoutStatus writes the two columns for 'completed' and 'failed'  *)
(* and leaves them alone otherwise: a payout that is completed and then    *)
(* moved back to pending keeps who processed it and when.                  *)
C27_UnprocessedWhileOpen ==
    \A payout \in payouts :
       payout.status \in {"pending", "processing"}
       => payout.processed_by = Null /\ payout.processed_at = Null

----------------------------------------------------------------------------
(* C11: the createCommissionPayout procedure of the router rejects every   *)
(* request whose amount is below 100000 and creates nothing for it: the    *)
(* handler is never called with such an amount, so every payout created    *)
(* through the router has an amount of at least 100000.                    *)
C11_RouterMinimum ==
    /\ [](\A payout \in payouts : payout.amount >= MinPayoutAmount * Cents)
    /\ [](\A p \in Procs :
            InCreateCommissionPayout(p)
            => calls[p].input.amount >= MinPayoutAmount * Cents)
    /\ [][(last'.op = "appRouter.createCommissionPayout" /\ last' # last)
            => /\ last'.input.amount < MinPayoutAmount * Cents
               /\ last'.outcome = ErrBadRequest
               /\ payouts' = payouts
               /\ calls' = calls]_vars
    /\ [][\A p \in Procs :
            (calls[p] = Idle /\ InCreateCommissionPayout(p)')
            => calls'[p].input.amount >= MinPayoutAmount * Cents]_vars

(* C11 witness: the router has just refused a request of 99,999.99 from an *)
(* approved affiliate whose balance covers it, after letting through a     *)
(* request of exactly the minimum                                          *)
C11_Witness ==
    /\ last.op = "appRouter.createCommissionPayout"
    /\ last.outcome = ErrBadRequest
    /\ last.input.amount = MinPayoutAmount * Cents - 1
    /\ Approved(1)
    /\ \E payout \in payouts : /\ payout.amount = MinPayoutAmount * Cents
                               /\ payout.status = "failed"
    /\ Earned(1) - Paid(1, {"completed"}) >= MinPayoutAmount * Cents

----------------------------------------------------------------------------
(* C14: every affiliate's commission_rate is a fraction between 0 and 1,   *)
(* so the commission_amount of a registration never exceeds its            *)
(* registration_fee.                                                       *)
(* createAffiliateInputSchema asks only for a positive rate and the column *)
(* holds rates below 10: createAffiliate stores a rate of 1.5, and a       *)
(* registration for that affiliate carries a commission of 1.5 times the   *)
(* fee.                                                                    *)
C14_RateIsFraction ==
    /\ \A a \in affiliates : 0 <= a.commission_rate /\ a.commission_rate <= RateScale
    /\ \A reg \in registrations : reg.commission_amount <= reg.registration_fee


----------------------------------------------------------------------------
(* C15: no operation changes the email, password_hash, full_name, phone or *)
(* role of an existing user, and none deletes a user: in every step the    *)
(* users table keeps its rows and each keeps these fields.                 *)
C15_UsersImmutable ==
    [][\A u \in users :
         /\ Has(users', u.id)
         /\ Row(users', u.id).email = u.email
         /\ Row(users', u.id).password_hash = u.password_hash
         /\ Row(users', u.id).full_name = u.full_name
         /\ Row(users', u.id).phone = u.phone
         /\ Row(users', u.id).role = u.role]_vars

(* C15 witness: a second user has signed up and owns an affiliate profile  *)
(* that the admin approved; both users have acted as confirmer or          *)
(* processor, and the admin's row is as it was at the start                *)
C15_Witness ==
    /\ Cardinality(users) = 2
    /\ \E u \in SeedUsers : u.id = 1 /\ u \in users
    /\ \E a \in affiliates : a.user_id = 2 /\ a.approved_by = 1
    /\ \E reg \in registrations : reg.confirmed_by = 2
    /\ \E payout \in payouts : payout.processed_by = 1

----------------------------------------------------------------------------
(* C16: updateAffiliateStatus, updateRegistrationStatus and                *)
(* updatePayoutStatus, called with an id that no record of their table     *)
(* carries, each fail with their 'not found' error and leave every table   *)
(* unchanged, whatever the other fields of the input are.                  *)
C16_NotFound ==
    /\ [][(/\ Called("updateAffiliateStatus")
           /\ ~Has(affiliates, last'.input.affiliate_id))
          => last'.outcome = ErrAffiliateIdNotFound /\ UNCHANGED tables]_vars
    /\ [][(/\ Called("updateRegistrationStatus")
           /\ ~Has(registrations, last'.input.registration_id))
          => last'.outcome = ErrRegistrationNotFound /\ UNCHANGED tables]_vars
    /\ [][\A p \in Procs :
            /\ (calls[p] = Idle /\ calls'[p].pc = "payoutStatusSelect") => UNCHANGED tables
            /\ (/\ Steps(p, "payoutStatusSelect")
                /\ ~Has(payouts, calls[p].input.payout_id))
               => /\ calls'[p] = Idle
                  /\ last' = Fail("updatePayoutStatus", calls[p].input, ErrPayoutNotFound)
                  /\ UNCHANGED tables]_vars

(* C16 witness: an update of a registration that does not exist has just   *)
(* failed, in a database whose affiliates, registration and payouts have   *)
(* all been updated before                                                 *)
C16_Witness ==
    /\ last.op = "updateRegistrationStatus"
    /\ last.outcome = ErrRegistrationNotFound
    /\ Row(registrations, 1).status = "cancelled"
    /\ Row(affiliates, 2).status = "approved"
    /\ \E payout \in payouts : payout.status = "completed"

----------------------------------------------------------------------------
(* C17: updateRegistrationStatus changes nothing of the target             *)
(* registration but its status, confirmed_by and confirmed_at: its         *)
(* affiliate_id, program_id, student fields, referral_code,                *)
(* registration_fee and commission_amount keep the values set at creation, *)
(* also when the affiliate's status has changed since; no other            *)
(* registration is changed and none is added or removed.                   *)
C17_RegistrationFrame ==
    [][(/\ Called("updateRegistrationStatus")
        /\ Has(registrations, last'.input.registration_id))
       => /\ Cardinality(registrations') = Cardinality(registrations)
          /\ \A reg \in registrations :
               IF reg.id = last'.input.registration_id
               THEN LET after == Row(registrations', reg.id)
                    IN  /\ Has(registrations', reg.id)
                        /\ after.affiliate_id = reg.affiliate_id
                        /\ after.program_id = reg.program_id
                        /\ after.student_name = reg.student_name
                        /\ after.referral_code = reg.referral_code
                        /\ after.registration_fee = reg.registration_fee
                        /\ after.commission_amount = reg.commission_amount
                        /\ after.created_at = reg.created_at
               ELSE reg \in registrations']_vars

(* C17 witness: a registration has just been cancelled after its affiliate *)
(* was suspended; it still carries the fee and the commission computed     *)
(* when it was created, and the other registration is confirmed            *)
C17_Witness ==
    /\ last.op = "updateRegistrationStatus"
    /\ last.outcome = Ok
    /\ Cardinality(registrations) = 2
    /\ Row(registrations, last.row).status = "cancelled"
    /\ Row(affiliates, Row(registrations, last.row).affiliate_id).status = "suspended"
    /\ Row(registrations, last.row).registration_fee = 300000300
    /\ Row(registrations, last.row).commission_amount > 0
    /\ \E reg \in registrations : reg.status = "confirmed"

----------------------------------------------------------------------------
(* C18: updatePayoutStatus never changes a payout's affiliate_id, amount,  *)
(* method, bank_details or ewallet_details; an update that succeeds        *)
(* replaces the notes by the input's notes (a string or null) when the     *)
(* input carries the field and leaves them as they were when it does not.  *)
C18_PayoutFrame ==
    [][\A p \in Procs :
         /\ Steps(p, "payoutStatusSelect") => payouts' = payouts
         /\ (Steps(p, "payoutStatusUpdate") /\ Has(payouts, calls[p].input.payout_id))
            => LET input == calls[p].input
               IN  /\ Cardinality(payouts') = Cardinality(payouts)
                   /\ \A payout \in payouts :
                        LET after == Row(payouts', payout.id)
                        IN  /\ Has(payouts', payout.id)
                            /\ after.affiliate_id = payout.affiliate_id
                            /\ after.amount = payout.amount
                            /\ after.method = payout.method
                            /\ after.bank_details = payout.bank_details
                            /\ after.ewallet_details = payout.ewallet_details
                            /\ payout.id # input.payout_id => after.notes = payout.notes
                   /\ last'.outcome = Ok
                      => Row(payouts', input.payout_id).notes =
                           IF input.notes = AbsentNotes
                           THEN Row(payouts, input.payout_id).notes
                           ELSE input.notes
                   /\ last'.outcome # Ok => payouts' = payouts]_vars

(* C18 witness: of two payouts, the one just updated is failed with null   *)
(* notes and its bank details intact, the other is failed too and carries  *)
(* the notes an update wrote                                               *)
C18_Witness ==
    /\ last.op = "updatePayoutStatus"
    /\ last.outcome = Ok
    /\ last.input.notes = AbsentNotes
    /\ Cardinality(payouts) = 2
    /\ Row(payouts, last.row).notes = NoNotes
    /\ Row(payouts, last.row).status = "failed"
    /\ Row(payouts, last.row).bank_details = "{bank}"
    /\ \E payout \in payouts :
         /\ payout.id # last.row
         /\ payout.notes \in NoteTexts
         /\ payout.status = "failed"

----------------------------------------------------------------------------
(* C21: updateAffiliateStatus and updateRegistrationStatus apply no        *)
(* transition guard: for an existing record and any requested status of    *)
(* the enum, whether the call succeeds does not depend on the status the   *)
(* record had (it succeeds whenever the approver or confirmer it would     *)
(* store is a user or is not stored), and after a success the stored       *)
(* status equals the requested one.                                        *)
C21_NoTransitionGuard ==
    [][/\ (/\ Called("updateAffiliateStatus")
           /\ Has(affiliates, last'.input.affiliate_id))
          => /\ last'.outcome = Ok
                <=> ((last'.input.status = "approved" /\ last'.input.approved_by # Absent)
                     => UserExists(last'.input.approved_by))
             /\ last'.outcome = Ok
                => Row(affiliates', last'.input.affiliate_id).status = last'.input.status
       /\ (/\ Called("updateRegistrationStatus")
           /\ Has(registrations, last'.input.registration_id))
          => /\ last'.outcome = Ok
                <=> ((last'.input.status = "confirmed" /\ last'.input.confirmed_by # Absent)
                     => UserExists(last'.input.confirmed_by))
             /\ last'.outcome = Ok
                => Row(registrations', last'.input.registration_id).status =
                     last'.input.status]_vars

(* C21 witness: the affiliate that was approved and the registration that  *)
(* was confirmed are both back to pending after successful updates         *)
C21_Witness ==
    /\ last.op \in {"updateAffiliateStatus", "updateRegistrationStatus"}
    /\ last.outcome = Ok
    /\ Row(affiliates, 1).status = "pending"
    /\ Row(affiliates, 1).approved_by = Null
    /\ Row(registrations, 1).status = "pending"
    /\ Row(registrations, 1).confirmed_by = Null

----------------------------------------------------------------------------
(* C23: getAffiliateStats called with start_date and/or end_date counts    *)
(* only the affiliate's registrations and payouts whose created_at lies    *)
(* within the inclusive range and computes every figure it returns,        *)
(* available_for_payout included, from those records alone; for an         *)
(* affiliate id with no records it returns all zeros and does not fail.    *)
(* The registrations are those its first query read, the payouts those of  *)
(* its second; the amounts are compared to the cent.                       *)
Within(at, input) ==
    /\ (input.start_date = Absent \/ input.start_date <= at)
    /\ (input.end_date = Absent \/ at <= input.end_date)

RegsWithin(input, statuses) ==
    {reg \in RegsOf(input.affiliate_id, statuses) : Within(reg.created_at, input)}
PayoutsWithin(input, statuses) ==
    {payout \in PayoutsOf(input.affiliate_id, statuses) : Within(payout.created_at, input)}

ZeroStats ==
    [total_registrations |-> 0, confirmed_registrations |-> 0, pending_registrations |-> 0,
     total_commission_earned |-> FZero, total_commission_paid |-> FZero,
     pending_commission |-> FZero, available_for_payout |-> FZero]

C23_StatsWithinRange ==
    [][\A p \in Procs :
         /\ Steps(p, "statsSelectRegistrations")
            => calls'[p].registrations = RegsWithin(calls[p].input, registrationStatusEnum)
         /\ (Steps(p, "statsSelectPayouts") /\ calls[p].op = "getAffiliateStats")
            => LET input == calls[p].input
                   regs == calls[p].registrations
                   earned == Sum({reg \in regs : reg.status = "confirmed"},
                                 "commission_amount")
                   paid == Sum(PayoutsWithin(input, {"completed"}), "amount")
                   pending == Sum(PayoutsWithin(input, {"pending", "processing"}), "amount")
                   stats == last'.stats
               IN  /\ calls'[p] = Idle
                   /\ last'.outcome = Ok
                   /\ stats.total_registrations = Cardinality(regs)
                   /\ stats.confirmed_registrations =
                        Cardinality({reg \in regs : reg.status = "confirmed"})
                   /\ stats.pending_registrations =
                        Cardinality({reg \in regs : reg.status = "pending"})
                   /\ toNumeric(stats.total_commission_earned, Cents) = earned
                   /\ toNumeric(stats.total_commission_paid, Cents) = paid
                   /\ toNumeric(stats.pending_commission, Cents) = pending
                   /\ toNumeric(stats.available_for_payout, Cents) =
                        IF earned - paid - pending >= Threshold
                        THEN earned - paid - pending ELSE 0
                   /\ (regs = {} /\ PayoutsOf(input.affiliate_id, payoutStatusEnum) = {})
                      => stats = ZeroStats]_vars

(* C23 witness: the statistics just returned count one of the affiliate's  *)
(* two registrations and none of its completed payouts, so the range left  *)
(* records out, and available_for_payout is the whole commission of the    *)
(* one registration counted                                                *)
C23_Witness ==
    /\ last.op = "getAffiliateStats"
    /\ last.input.affiliate_id = 1
    /\ Cardinality(RegsOf(1, {"confirmed"})) = 2
    /\ PayoutsOf(1, {"completed"}) # {}
    /\ last.stats.total_registrations = 1
    /\ last.stats.total_commission_paid = FZero
    /\ last.stats.available_for_payout = last.stats.total_commission_earned
    /\ last.stats.available_for_payout # FZero

----------------------------------------------------------------------------
(* C24: for getAffiliates and getCommissionPayouts over an unchanged       *)
(* table, the page (limit L, offset 0) and the page (limit L, offset L)    *)
(* of the same filters contain no common record and together hold as many  *)
(* records as the first 2L of the list; with no limit given at most 50     *)
(* records are returned.                                                   *)
(* The two pages are two queries; among rows with the same created_at each *)
(* query orders as it happens to, so a row can be on both pages.           *)
Elems(s) == { s[i] : i \in DOMAIN s }

(* the step is the query op for the page that follows the page of the     *)
(* response before it                                                      *)
SecondPageOf(op) ==
    /\ Called(op)
    /\ last.op = op
    /\ last.outcome = Ok
    /\ last'.outcome = Ok
    /\ "limit" \in DOMAIN last.input
    /\ "limit" \in DOMAIN last'.input
    /\ last'.input.limit # Absent
    /\ last'.input.offset = last'.input.limit
    /\ last.input = [last'.input EXCEPT !.offset = 0]

C24_PagesDisjoint ==
    [][/\ (Called("getAffiliates") /\ last'.outcome = Ok)
          => Len(last'.page) <= getAffiliatesInputSchema(last'.input).data.limit
       /\ Called("getCommissionPayouts")
          => Len(last'.page) <= IF "limit" \in DOMAIN last'.input
                                THEN last'.input.limit ELSE DefaultLimit
       /\ \A op \in {"getAffiliates", "getCommissionPayouts"} :
            SecondPageOf(op)
            => /\ Elems(last.page) \cap Elems(last'.page) = {}
               /\ Len(last.page) < last'.input.limit => last'.page = <<>>]_vars

----------------------------------------------------------------------------
(* C26: when createStudentRegistration or createCommissionPayout runs      *)
(* interleaved with updateAffiliateStatus on the same affiliate, no        *)
(* registration and no payout is inserted at a moment when the affiliate's *)
(* stored status is not 'approved'.                                        *)
(* The status is read by the first select of the handler and the insert is *)
(* a later statement outside any transaction, so a suspension that lands   *)
(* between the two does not stop the insert.                               *)
C26_InsertOnlyWhileApproved ==
    [][/\ \A reg \in registrations' \ registrations : Approved(reg.affiliate_id)
       /\ \A payout \in payouts' \ payouts : Approved(payout.affiliate_id)]_vars

----------------------------------------------------------------------------
(* C28: in every reachable state every affiliate's user_id names an        *)
(* existing user, every registration's affiliate_id and program_id name an *)
(* existing affiliate and program, every payout's affiliate_id names an    *)
(* existing affiliate, and every non-null approved_by, confirmed_by and     *)
(* processed_by names an existing user; an update that would store a user  *)
(* id that names no user fails and changes no table.                       *)
NamesUser(uid) == uid = Null \/ Has(users, uid)

ReferentialIntegrity ==
    /\ \A a \in affiliates : Has(users, a.user_id) /\ NamesUser(a.approved_by)
    /\ \A reg \in registrations :
         /\ Has(affiliates, reg.affiliate_id)
         /\ Has(programs, reg.program_id)
         /\ NamesUser(reg.confirmed_by)
    /\ \A payout \in payouts :
         Has(affiliates, payout.affiliate_id) /\ NamesUser(payout.processed_by)

C28_ReferentialIntegrity ==
    /\ []ReferentialIntegrity
    /\ [][/\ (/\ Called("updateAffiliateStatus")
              /\ Has(affiliates, last'.input.affiliate_id)
              /\ last'.input.status = "approved"
              /\ last'.input.approved_by # Absent
              /\ ~Has(users, last'.input.approved_by))
             => last'.outcome = ErrConstraint /\ UNCHANGED tables
          /\ (/\ Called("updateRegistrationStatus")
              /\ Has(registrations, last'.input.registration_id)
              /\ last'.input.status = "confirmed"
              /\ last'.input.confirmed_by \notin {Absent, 0}
              /\ ~Has(users, last'.input.confirmed_by))
             => last'.outcome = ErrConstraint /\ UNCHANGED tables
          /\ \A p \in Procs :
               (/\ Steps(p, "payoutStatusUpdate")
                /\ Has(payouts, calls[p].input.payout_id)
                /\ calls[p].input.status \in {"completed", "failed"}
                /\ calls[p].input.processed_by # Absent
                /\ ~Has(users, calls[p].input.processed_by))
               => last'.outcome = ErrConstraint /\ UNCHANGED tables]_vars

(* C28 witness: an update naming a user that does not exist has just been  *)
(* rejected, in a database whose affiliates, registrations and payouts     *)
(* carry approvers, confirmers and processors                              *)
C28_Witness ==
    /\ last.outcome = ErrConstraint
    /\ last.op = "updatePayoutStatus"
    /\ Cardinality(registrations) = 2
    /\ Cardinality(payouts) = 2
    /\ Cardinality(affiliates) = 2
    /\ \E payout \in payouts : payout.processed_by = 1
    /\ \E reg \in registrations : reg.confirmed_by = 1
    /\ \A a \in affiliates : a.approved_by = 1

----------------------------------------------------------------------------
(* C29: sign-up through AffiliateRegistrationForm is all-or-nothing: when  *)
(* handleSubmit has ended, either the user and its affiliate profile both  *)
(* exist or neither was added; a failure of the createAffiliate step never *)
(* leaves a user with role 'affiliate' that has no affiliate profile.      *)
(* handleSubmit only reports the failure: the user createUser added stays. *)
C29_AllOrNothing ==
    [][\A p \in Procs :
         (/\ calls[p] # Idle
          /\ calls[p].op = "handleSubmit"
          /\ calls'[p] = Idle)
         => LET added == { u \in users' : /\ u.email = last'.input.email
                                          /\ u.role = "affiliate" }
            IN  /\ last'.outcome = Ok => added # {}
                /\ \A u \in added : \E a \in affiliates' : a.user_id = u.id]_vars

----------------------------------------------------------------------------
(* C30: for every logged-in user with role 'affiliate' that has an         *)
(* affiliate profile, loadAffiliateData finds that profile whatever the    *)
(* number of affiliates in the system, and the full dashboard is rendered  *)
(* exactly when the profile's status is 'approved'; pending, rejected and  *)
(* suspended profiles get their notice.                                    *)
(* The list the dashboard searches is the first page of 50, newest first:  *)
(* with 51 affiliates the oldest one is not in it.                         *)
ProfileOf(user) == CHOOSE a \in affiliates : a.user_id = user

C30_DashboardFindsProfile ==
    [][\A p \in Procs :
         /\ (/\ Steps(p, "loadGetAffiliates")
             /\ Row(users, calls[p].user).role = "affiliate"
             /\ \E a \in affiliates : a.user_id = calls[p].user)
            => /\ calls'[p] # Idle
               /\ calls'[p].affiliate = ProfileOf(calls[p].user)
         /\ (/\ calls[p] # Idle
             /\ calls[p].op = "loadAffiliateData"
             /\ Steps(p, "statsSelectPayouts"))
            => /\ last'.view = "dashboard" <=> calls[p].affiliate.status = "approved"
               /\ calls[p].affiliate.status = "pending" => last'.view = "pending notice"
               /\ calls[p].affiliate.status = "rejected" => last'.view = "rejected notice"
               /\ calls[p].affiliate.status = "suspended"
                  => last'.view = "suspended notice"]_vars

====
